---- MODULE Spec2Model ----
(***************************************************************************)
(* A model of the wagon WebAssembly interpreter core (package exec):       *)
(* the VM struct, the operand stack, the dispatch loop, the memory,        *)
(* variable, numeric and call handlers, and ExecCode from its argument     *)
(* check to its return.                                                    *)
(*                                                                         *)
(* Go integers are modelled at their real width.  TLC's integers are 32    *)
(* bits wide, so a Go value of an n-byte integer type is the tuple of its  *)
(* n bytes, least significant first (the layout encoding/binary's          *)
(* LittleEndian reads and writes); a stack slot (uint64) is 8 bytes.       *)
(***************************************************************************)
EXTENDS Integers, Sequences, FiniteSets, TLC

(***************************************************************************)
(* Fixed-width integers as little-endian byte tuples                       *)
(***************************************************************************)

\* The n-byte little-endian encoding of a natural number x < 2^31.
RECURSIVE LE(_, _)
LE(x, n) == IF n = 0 THEN <<>> ELSE <<x % 256>> \o LE(x \div 256, n - 1)

\* The natural number a byte tuple encodes (used only where it is < 2^31).
RECURSIVE ToInt(_)
ToInt(b) == IF b = <<>> THEN 0 ELSE b[1] + 256 * ToInt(Tail(b))

\* TRUE when the unsigned value of b is below 2^31, so that ToInt(b) is defined.
FitsInt(b) == \A i \in DOMAIN b : (i > 4 => b[i] = 0) /\ (i = 4 => b[i] < 128)

\* a + b + c modulo 256^Len(a), for a carry c in {0, 1}.
RECURSIVE AddC(_, _, _)
AddC(a, b, c) ==
    IF a = <<>> THEN <<>>
    ELSE LET s == a[1] + b[1] + c
         IN  <<s % 256>> \o AddC(Tail(a), Tail(b), s \div 256)

ZeroBytes(n) == [i \in 1..n |-> 0]
\* An allocation of n slots that is not zeroed.
ZeroSlotsMutant(n) == [i \in 1..n |-> [j \in 1..8 |-> IF j = 1 THEN 1 ELSE 0]]
\* make([]uint64, n): n zero slots.
ZeroSlots(n) == [i \in 1..n |-> [j \in 1..8 |-> 0]]
NotB(a) == [i \in DOMAIN a |-> 255 - a[i]]
\* Go's wrapping +, unary - and binary - on an unsigned or two's-complement type.
AddB(a, b) == AddC(a, b, 0)
NegB(a) == AddC(NotB(a), ZeroBytes(Len(a)), 1)
SubB(a, b) == AddC(a, NotB(b), 1)

\* a < b as unsigned integers of the same width.
LessU(a, b) ==
    \E i \in DOMAIN a : a[i] < b[i] /\ \A j \in (i + 1)..Len(a) : a[j] = b[j]

\* The sign bit of a two's-complement value.
IsNeg(a) == a[Len(a)] >= 128

\* a * d + c modulo 256^Len(a), for a digit d and a carry c below 256.
RECURSIVE MulC(_, _, _)
MulC(a, d, c) ==
    IF a = <<>> THEN <<>>
    ELSE LET s == a[1] * d + c
         IN  <<s % 256>> \o MulC(Tail(a), d, s \div 256)

\* The largest digit d (found bit by bit, from 2^bit down) with b * d <= r.
RECURSIVE Digit(_, _, _, _)
Digit(r, b, bit, d) ==
    IF bit < 0 THEN d
    ELSE IF LessU(r, MulC(b, d + 2 ^ bit, 0))
         THEN Digit(r, b, bit - 1, d)
         ELSE Digit(r, b, bit - 1, d + 2 ^ bit)

\* Unsigned long division, one byte of the dividend per step: DivStep(a, b, k)
\* is the quotient and remainder of (a without its k low bytes) by b; r and b
\* are one byte wider than a so that 256r + 255 and 255b cannot wrap.
RECURSIVE DivStep(_, _, _)
DivStep(a, b, k) ==
    IF k = Len(a) THEN [q |-> ZeroBytes(Len(a)), r |-> ZeroBytes(Len(b))]
    ELSE LET p == DivStep(a, b, k + 1)
             r2 == <<a[k + 1]>> \o SubSeq(p.r, 1, Len(b) - 1)
             d == Digit(r2, b, 7, 0)
         IN  [q |-> <<d>> \o SubSeq(p.q, 1, Len(a) - 1),
              r |-> SubB(r2, MulC(b, d, 0))]

DivModU(a, b) ==
    LET w == DivStep(a, b \o <<0>>, 0)
    IN  [q |-> w.q, r |-> SubSeq(w.r, 1, Len(a))]

\* Go's / and % on unsigned operands, divisor not zero.
QuoU(a, b) == DivModU(a, b).q
RemU(a, b) == DivModU(a, b).r

\* Go's / and % on signed operands, divisor not zero: the quotient truncates
\* toward zero and the remainder has the sign of the dividend.  For the most
\* negative dividend and divisor -1 the Go specification defines q = x, r = 0
\* (no run-time panic); the magnitudes below give exactly that.
AbsB(a) == IF IsNeg(a) THEN NegB(a) ELSE a
QuoS(a, b) ==
    LET q == QuoU(AbsB(a), AbsB(b))
    IN  IF IsNeg(a) # IsNeg(b) THEN NegB(q) ELSE q
RemS(a, b) ==
    LET r == RemU(AbsB(a), AbsB(b))
    IN  IF IsNeg(a) THEN NegB(r) ELSE r

\* Go integer conversions between widths.
Trunc(a, n) == SubSeq(a, 1, n)                       \* uintN(x), intN(x)
ZeroExt(a, n) == a \o ZeroBytes(n - Len(a))          \* uint64(x) for unsigned x
SignExt(a, n) ==                                     \* uint64(x) for signed x
    a \o [i \in 1..(n - Len(a)) |-> IF IsNeg(a) THEN 255 ELSE 0]


(***************************************************************************)
(* State                                                                   *)
(***************************************************************************)
VARIABLES
    vm,               \* the VM struct: ctx, globals, memory, abort, RecoverPanic, pg, PgTx
    opNum,            \* the package-level operation counter shared by every VM
    db,               \* the telemetry sink: rows and commits it has received
    debugStackDepth,  \* the build constant read by pushUint64
    run,              \* the public API call in progress and the outcome of the last one
    callStack,        \* the Go frames of nested call handlers: the saved caller contexts
    last              \* history: the opcode the dispatch loop executed last (-1: none)

vars == <<vm, opNum, db, debugStackDepth, run, callStack, last>>

\* Go panic values.  A trap is a panic whose value is one of the Err* errors
\* or the run-time error Go raises for an integer division by zero.
NoPanic == "none"
ErrOutOfBoundsMemoryAccess == "exec: out of bounds memory access"
ErrUnreachable == "exec: reached unreachable"
ErrSignatureMismatch == "exec: signature mismatch in call_indirect"
ErrUndefinedElementIndex == "exec: undefined element index"
MakeSliceLen == "runtime error: makeslice: len out of range"
DivideByZero == "runtime error: integer divide by zero"
IndexOutOfRange == "runtime error: index out of range"
SliceOutOfRange == "runtime error: slice bounds out of range"
NilDereference == "runtime error: invalid memory address or nil pointer dereference"
StackExceeded == "stack exceeding max depth"
NotCompiled == "exec: function is not a compiled function"
ErrTxClosed == "tx is closed"

wasmPageSize == 65536

\* The machine state a handler runs on and returns: the VM it is a method of,
\* the package-level counter and the sink it writes through opLog, and the
\* panic (if any) that ended it.  Every primitive is a no-op on a state that
\* has already panicked: a Go panic skips the rest of the handler.
Panic(s, e) == IF s.panic # NoPanic THEN s ELSE [s EXCEPT !.panic = e]
Ok(s) == s.panic = NoPanic

(***************************************************************************)
(* Operand stack and immediates                                            *)
(***************************************************************************)

\* append returns a slice whose capacity is unchanged while the element
\* fits and doubled by the Go run time when the backing array is full.
pushUint64(s, i) ==
    LET GrownCap(len, cap) ==
            IF len < cap THEN cap ELSE IF cap = 0 THEN 1 ELSE 2 * cap
    IN  IF ~Ok(s) THEN s
        ELSE IF debugStackDepth /\ Len(s.vm.ctx.stack) >= s.vm.ctx.cap
        THEN Panic(s, StackExceeded)
        ELSE [s EXCEPT !.vm.ctx.stack = Append(@, i),
                       !.vm.ctx.cap = GrownCap(Len(s.vm.ctx.stack), @)]

pushInt64(s, i) == pushUint64(s, i)
pushUint32(s, i) == pushUint64(s, ZeroExt(i, 8))
\* uint64(i) of a signed 32-bit i sign-extends.
pushInt32(s, i) == pushUint64(s, SignExt(i, 8))

\* pop: the popped value v and the state after it.
popUint64(s) ==
    IF ~Ok(s) THEN [s |-> s, v |-> ZeroBytes(8)]
    ELSE IF Len(s.vm.ctx.stack) = 0
    THEN [s |-> Panic(s, IndexOutOfRange), v |-> ZeroBytes(8)]
    ELSE [s |-> [s EXCEPT !.vm.ctx.stack = SubSeq(@, 1, Len(@) - 1)],
          v |-> s.vm.ctx.stack[Len(s.vm.ctx.stack)]]

popUint32(s) == LET p == popUint64(s) IN [s |-> p.s, v |-> Trunc(p.v, 4)]
popInt32(s) == popUint32(s)

\* The n bytes of the code stream at the program counter (pc counts from 0).
CodeAt(s, n) == SubSeq(s.vm.ctx.code, s.vm.ctx.pc + 1, s.vm.ctx.pc + n)

fetchInt8(s) ==
    [s |-> IF Ok(s) THEN [s EXCEPT !.vm.ctx.pc = @ + 1] ELSE s, v |-> CodeAt(s, 1)]
fetchBool(s) == LET f == fetchInt8(s) IN [s |-> f.s, v |-> f.v # <<0>>]
fetchUint32(s) ==
    [s |-> IF Ok(s) THEN [s EXCEPT !.vm.ctx.pc = @ + 4] ELSE s, v |-> CodeAt(s, 4)]
fetchUint64(s) ==
    [s |-> IF Ok(s) THEN [s EXCEPT !.vm.ctx.pc = @ + 8] ELSE s, v |-> CodeAt(s, 8)]
fetchInt64(s) == fetchUint64(s)

(***************************************************************************)
(* Telemetry (opLog)                                                       *)
(***************************************************************************)

\* opLog commits the open transaction when opNum is a multiple of this.
CommitEvery == 10000
\* The largest number of fields opLog has an Exec case for.
MaxLogFields == 8

\* pgx: Commit of a transaction.  A transaction that was already committed
\* returns ErrTxClosed, which opLog and ExecCode turn into a panic; a nil
\* *pgx.Tx faults on the first field it reads.
Commit(s) ==
    IF ~Ok(s) THEN s
    ELSE IF s.vm.PgTx.status = "nil" THEN Panic(s, NilDereference)
    ELSE IF s.vm.PgTx.status = "closed" THEN Panic(s, ErrTxClosed)
    ELSE [s EXCEPT !.vm.PgTx.status = "closed",
                   !.db = [rows |-> @.rows + s.vm.PgTx.n,
                           commits |-> @.commits + 1,
                           batch |-> s.vm.PgTx.n]]

\* pgx: ConnPool.Begin, a fresh open transaction.
Begin(s) == IF ~Ok(s) THEN s ELSE [s EXCEPT !.vm.PgTx = [status |-> "open", n |-> 0]]

\* opLog with nFields field names and as many data values.
opLog(s, nFields) ==
    IF ~Ok(s) THEN s
    ELSE IF ~s.vm.pg THEN s                          \* logging is not enabled
    ELSE IF nFields > MaxLogFields THEN s            \* "Need to add a case": no row
    ELSE IF s.vm.PgTx.status # "open" THEN s         \* Exec fails: logged, no row
    ELSE LET row == [s EXCEPT !.vm.PgTx.n = @ + 1]
             com == IF s.opNum % CommitEvery = 0 THEN Begin(Commit(row)) ELSE row
         IN  IF Ok(com) THEN [com EXCEPT !.opNum = @ + 1] ELSE com

(***************************************************************************)
(* Linear memory                                                           *)
(***************************************************************************)

\* vm.memory, a byte slice: its length and its bytes.  Only the non-zero
\* bytes are stored (data maps their indices, from 0, to their values); every
\* other index below len holds 0.
RECURSIVE MemPut(_, _, _)
MemPut(mem, a, bytes) ==
    IF bytes = <<>> THEN mem
    ELSE LET b == bytes[1]
             keep == (DOMAIN mem.data \ {a}) \cup (IF b # 0 THEN {a} ELSE {})
             put == [mem EXCEPT !.data =
                        [i \in keep |-> IF i = a THEN b ELSE mem.data[i]]]
         IN  MemPut(put, a + 1, Tail(bytes))

\* endianess.UintN(vm.memory[addr:]) and endianess.PutUintN(vm.memory[addr:], v)
\* for N = 8n: Go panics when fewer than n bytes follow addr.
MemRead(s, addr, n) ==
    LET mem == s.vm.memory
    IN  [i \in 1..n |-> IF addr + i - 1 \in DOMAIN mem.data
                        THEN mem.data[addr + i - 1] ELSE 0]
MemWrite(s, addr, bytes) ==
    IF ~Ok(s) THEN s
    ELSE IF ~(addr >= 0 /\ addr + Len(bytes) <= s.vm.memory.len)
    THEN Panic(s, IndexOutOfRange)
    ELSE [s EXCEPT !.vm.memory = MemPut(@, addr, bytes)]

\* The effective address: the 4-byte immediate at pc plus the low 32 bits of
\* the top of the stack, in uint32 arithmetic.
EffectiveAddr(s) ==
    AddB(CodeAt(s, 4), Trunc(s.vm.ctx.stack[Len(s.vm.ctx.stack)], 4))

\* inBounds with the comparison relaxed to <=.
inBoundsMutant(s, offset) ==
    LET addr == EffectiveAddr(s)
    IN  FitsInt(addr) /\ ToInt(addr) <= s.vm.memory.len - offset

\* int(addr)+offset < len(vm.memory), with int 64 bits wide: an addr of 2^31
\* or more is above every memory length of this model.
inBounds(s, offset) ==
    LET addr == EffectiveAddr(s)
    IN  FitsInt(addr) /\ ToInt(addr) < s.vm.memory.len - offset

\* fetchBaseAddr: the immediate is fetched, the base popped; v is the address
\* when it is an index TLC can hold (the handlers call it after inBounds).
fetchBaseAddr(s) ==
    LET f == fetchUint32(s)
        p == popInt32(f.s)
        addr == AddB(f.v, p.v)
    IN  [s |-> p.s, v |-> IF FitsInt(addr) THEN ToInt(addr) ELSE -1]

\* A load: the bounds check with the handler's own offset, the address, the
\* handler's read of width bytes, the extension to the pushed type, the push,
\* the log.  inBounds reads the top of the stack, which must exist.  The
\* value pushed: uintN -> uint32/uint64 zero-extends in the slot; intN ->
\* int32 -> pushInt32 and intN -> int64 -> pushInt64 both end in
\* uint64(signed), which sign-extends over the whole slot.
Load(s, bound, width, signed, opLogFields) ==
    IF ~Ok(s) THEN s
    ELSE IF Len(s.vm.ctx.stack) = 0 THEN Panic(s, IndexOutOfRange)
    ELSE IF ~inBounds(s, bound) THEN Panic(s, ErrOutOfBoundsMemoryAccess)
    ELSE LET a == fetchBaseAddr(s)
             read == MemRead(a.s, a.v, width)
         IN  IF ~(a.v >= 0 /\ a.v + width <= a.s.vm.memory.len)
             THEN Panic(a.s, IndexOutOfRange)
             ELSE opLog(pushUint64(a.s, IF signed THEN SignExt(read, 8)
                                        ELSE ZeroExt(read, 8)), opLogFields)

\* A store: pop the value, the bounds check with the handler's own offset,
\* the address, the write of the low width bytes of the value, the log.
Store(s, bound, width, opLogFields) ==
    LET val == popUint64(s)
    IN  IF ~Ok(val.s) THEN val.s
        ELSE IF Len(val.s.vm.ctx.stack) = 0 THEN Panic(val.s, IndexOutOfRange)
        ELSE IF ~inBounds(val.s, bound)
        THEN Panic(val.s, ErrOutOfBoundsMemoryAccess)
        ELSE LET a == fetchBaseAddr(val.s)
             IN  opLog(MemWrite(a.s, a.v, Trunc(val.v, width)), opLogFields)

i32Load(s) == Load(s, 3, 4, FALSE, 5)
i32Load8s(s) == Load(s, 0, 1, TRUE, 5)
i32Load8u(s) == Load(s, 0, 1, FALSE, 5)
i32Load16s(s) == Load(s, 1, 2, TRUE, 5)
i32Load16u(s) == Load(s, 1, 2, FALSE, 5)
i64Load(s) == Load(s, 7, 8, FALSE, 5)
i64Load8s(s) == Load(s, 0, 1, TRUE, 5)
i64Load8u(s) == Load(s, 0, 1, FALSE, 5)
i64Load16s(s) == Load(s, 1, 2, TRUE, 5)
i64Load16u(s) == Load(s, 1, 2, FALSE, 5)
i64Load32s(s) == Load(s, 3, 4, TRUE, 5)
i64Load32u(s) == Load(s, 3, 4, FALSE, 5)
f32Load(s) == Load(s, 3, 4, FALSE, 5)
f64Load(s) == Load(s, 7, 8, FALSE, 5)
f32Store(s) == Store(s, 3, 4, 5)
f64Store(s) == Store(s, 7, 8, 5)
\* i32Store writing only the low 16 bits of the value.
i32StoreMutant(s) == Store(s, 3, 2, 5)
i32Store(s) == Store(s, 3, 4, 5)
i32Store8(s) == Store(s, 0, 1, 5)
i32Store16(s) == Store(s, 1, 2, 5)
i64Store(s) == Store(s, 7, 8, 5)
i64Store8(s) == Store(s, 0, 1, 5)
i64Store16(s) == Store(s, 1, 2, 5)
i64Store32(s) == Store(s, 3, 4, 5)

\* currentMemory: the reserved byte is fetched and len(vm.memory) /
\* wasmPageSize pushed as an int32.
currentMemory(s) ==
    LET f == fetchInt8(s)
    IN  IF ~Ok(f.s) THEN f.s
        ELSE opLog(pushInt32(f.s, LE(f.s.vm.memory.len \div wasmPageSize, 4)), 4)

\* growMemory appending n bytes instead of n pages.
growMemoryMutant(s) ==
    LET f == fetchInt8(s)
        curLen == s.vm.memory.len \div wasmPageSize
        n == popInt32(f.s)
    IN  IF ~Ok(n.s) THEN n.s
        ELSE IF IsNeg(n.v) THEN Panic(n.s, MakeSliceLen)
        ELSE opLog(pushInt32([n.s EXCEPT !.vm.memory.len = @ + ToInt(n.v)],
                             LE(curLen, 4)), 4)

\* growMemory: n is an int32, so n*wasmPageSize is an int32 product: its low
\* 32 bits are n's low 16 bits moved up by 16.  make panics on a negative
\* length; append adds that many zero bytes.  No limit is compared with.
growMemory(s) ==
    LET f == fetchInt8(s)
        curLen == s.vm.memory.len \div wasmPageSize
        n == popInt32(f.s)
        size == <<0, 0, n.v[1], n.v[2]>>
    IN  IF ~Ok(n.s) THEN n.s
        ELSE IF IsNeg(size) THEN Panic(n.s, MakeSliceLen)
        ELSE opLog(pushInt32([n.s EXCEPT !.vm.memory.len = @ + ToInt(size)],
                             LE(curLen, 4)), 4)

(***************************************************************************)
(* Numeric handlers                                                        *)
(***************************************************************************)

\* Both operands popped (the right-hand one first), as the handlers do.
Pop2(s, width) ==
    LET p2 == popUint64(s)
        p1 == popUint64(p2.s)
    IN  [s |-> p1.s, v1 |-> Trunc(p1.v, width), v2 |-> Trunc(p2.v, width)]

\* DivOp on a machine whose division does not fault on a zero divisor.
DivOpMutant(d, width, done) == IF ~Ok(d.s) THEN d.s ELSE done

\* v1 / v2 and v1 % v2 on the popped operands d: Go raises a run-time panic
\* when v2 is zero and evaluates the operator otherwise; done is the rest of
\* the handler (the push of the result and, for i32, the log).
DivOp(d, width, done) ==
    IF ~Ok(d.s) THEN d.s
    ELSE IF d.v2 = ZeroBytes(width) THEN Panic(d.s, DivideByZero)
    ELSE done

i32Add(s) ==
    LET p1 == popUint32(s)
        p2 == popUint32(p1.s)
    IN  opLog(pushUint32(p2.s, AddB(p1.v, p2.v)), 6)

\* i32DivS dividing the operand popped first by the one popped second.
i32DivSMutant(s) ==
    LET d == Pop2(s, 4) IN DivOp(d, 4, opLog(pushInt32(d.s, QuoS(d.v2, d.v1)), 6))
i32DivS(s) ==
    LET d == Pop2(s, 4) IN DivOp(d, 4, opLog(pushInt32(d.s, QuoS(d.v1, d.v2)), 6))
i32DivU(s) ==
    LET d == Pop2(s, 4) IN DivOp(d, 4, opLog(pushUint32(d.s, QuoU(d.v1, d.v2)), 6))
i32RemS(s) ==
    LET d == Pop2(s, 4) IN DivOp(d, 4, opLog(pushInt32(d.s, RemS(d.v1, d.v2)), 6))
i32RemU(s) ==
    LET d == Pop2(s, 4) IN DivOp(d, 4, opLog(pushUint32(d.s, RemU(d.v1, d.v2)), 6))
\* The i64 handlers do not call opLog.
i64DivS(s) == LET d == Pop2(s, 8) IN DivOp(d, 8, pushInt64(d.s, QuoS(d.v1, d.v2)))
i64DivU(s) == LET d == Pop2(s, 8) IN DivOp(d, 8, pushUint64(d.s, QuoU(d.v1, d.v2)))
i64RemS(s) == LET d == Pop2(s, 8) IN DivOp(d, 8, pushInt64(d.s, RemS(d.v1, d.v2)))
i64RemU(s) == LET d == Pop2(s, 8) IN DivOp(d, 8, pushUint64(d.s, RemU(d.v1, d.v2)))

\* Go's v << k and v >> k on an unsigned or two's-complement v of 8*Len(v)
\* bits, for an unsigned count k: the bits move k places, zeros (or copies of
\* the sign bit, for >> on a signed v) enter, and a count of the width or
\* more leaves none of v's bits.  kind is "shl", "shr_u" or "shr_s".
Shift(v, k, kind) ==
    LET w == 8 * Len(v)
        n == IF FitsInt(k) /\ ToInt(k) < w THEN ToInt(k) ELSE w
        fill == IF kind = "shr_s" /\ IsNeg(v) THEN 1 ELSE 0
        pow == <<1, 2, 4, 8, 16, 32, 64, 128>>
        bit(i) == IF i < 0 THEN 0
                  ELSE IF i >= w THEN fill
                  ELSE (v[(i \div 8) + 1] \div pow[(i % 8) + 1]) % 2
        from(i) == IF kind = "shl" THEN i - n ELSE i + n
        byte(j) == bit(from(8 * j)) + 2 * bit(from(8 * j + 1))
                   + 4 * bit(from(8 * j + 2)) + 8 * bit(from(8 * j + 3))
                   + 16 * bit(from(8 * j + 4)) + 32 * bit(from(8 * j + 5))
                   + 64 * bit(from(8 * j + 6)) + 128 * bit(from(8 * j + 7))
    IN  [j \in 1..Len(v) |-> byte(j - 1)]

\* i32Shl, i32ShrS, i32ShrU, i64Shl, i64ShrS, i64ShrU: v2 and v1 popped,
\* v1 << v2 or v1 >> v2 pushed (by pushInt32 and pushInt64 for the signed
\* shifts); the i32 handlers log six fields, the i64 handlers nothing.
ShiftOp(s, width, kind) ==
    LET d == Pop2(s, width)
        val == Shift(d.v1, d.v2, kind)
    IN  IF ~Ok(d.s) THEN d.s
        ELSE IF width = 8 THEN pushUint64(d.s, val)
        ELSE opLog(IF kind = "shr_s" THEN pushInt32(d.s, val) ELSE pushUint32(d.s, val), 6)

\* f32Copysign: v2 and v1 popped as float32, math.Copysign(v1, v2) pushed:
\* v1 with the sign bit of v2.
f32Copysign(s) ==
    LET d == Pop2(s, 4)
        val == [d.v1 EXCEPT ![4] = (@ % 128) + 128 * (d.v2[4] \div 128)]
    IN  IF ~Ok(d.s) THEN d.s ELSE opLog(pushUint32(d.s, val), 6)

\* f64Copysign: math.Copysign(vm.popFloat64(), vm.popFloat64()); Go evaluates
\* the arguments from left to right, so the value popped first is the one
\* whose magnitude is kept.
f64Copysign(s) ==
    LET x == popUint64(s)
        y == popUint64(x.s)
        val == [x.v EXCEPT ![8] = (@ % 128) + 128 * (y.v[8] \div 128)]
    IN  IF ~Ok(y.s) THEN y.s ELSE pushUint64(y.s, val)

\* i32Wrapi64 pushing without popping its operand.
i32Wrapi64Mutant(s) ==
    LET v1 == popUint64(s) IN opLog(pushUint32(s, Trunc(v1.v, 4)), 5)
\* i32Wrapi64: uint32(v1) of the popped 64-bit v1.
i32Wrapi64(s) ==
    LET v1 == popUint64(s) IN opLog(pushUint32(v1.s, Trunc(v1.v, 4)), 5)

(***************************************************************************)
(* Constant, variable and parametric handlers                              *)
(***************************************************************************)

i32Const(s) == LET z == fetchUint32(s) IN opLog(pushUint32(z.s, z.v), 5)
i64Const(s) == LET z == fetchUint64(s) IN opLog(pushUint64(z.s, z.v), 5)

\* An index into a Go slice of length n, from the 4-byte immediate.
IndexOk(ix, n) == FitsInt(ix) /\ ToInt(ix) < n

getLocal(s) ==
    LET index == fetchUint32(s)
    IN  IF ~IndexOk(index.v, Len(s.vm.ctx.locals)) THEN Panic(index.s, IndexOutOfRange)
        ELSE opLog(pushUint64(index.s, s.vm.ctx.locals[ToInt(index.v) + 1]), 6)

setLocal(s) ==
    LET index == fetchUint32(s)
        val == popUint64(index.s)
    IN  IF ~Ok(val.s) THEN val.s
        ELSE IF ~IndexOk(index.v, Len(s.vm.ctx.locals)) THEN Panic(val.s, IndexOutOfRange)
        ELSE opLog([val.s EXCEPT !.vm.ctx.locals[ToInt(index.v) + 1] = val.v], 6)

teeLocal(s) ==
    LET index == fetchUint32(s)
        stack == s.vm.ctx.stack
    IN  IF Len(stack) = 0 \/ ~IndexOk(index.v, Len(s.vm.ctx.locals))
        THEN Panic(index.s, IndexOutOfRange)
        ELSE opLog([index.s EXCEPT !.vm.ctx.locals[ToInt(index.v) + 1] = stack[Len(stack)]], 6)

getGlobal(s) ==
    LET index == fetchUint32(s)
    IN  IF ~IndexOk(index.v, Len(s.vm.globals)) THEN Panic(index.s, IndexOutOfRange)
        ELSE opLog(pushUint64(index.s, s.vm.globals[ToInt(index.v) + 1]), 6)

setGlobal(s) ==
    LET index == fetchUint32(s)
        val == popUint64(index.s)
    IN  IF ~Ok(val.s) THEN val.s
        ELSE IF ~IndexOk(index.v, Len(s.vm.globals)) THEN Panic(val.s, IndexOutOfRange)
        ELSE opLog([val.s EXCEPT !.vm.globals[ToInt(index.v) + 1] = val.v], 6)

drop(s) ==
    IF Len(s.vm.ctx.stack) = 0 THEN Panic(s, IndexOutOfRange)
    ELSE opLog([s EXCEPT !.vm.ctx.stack = SubSeq(@, 1, Len(@) - 1)], 4)

unreachable(s) == Panic(opLog(s, 2), ErrUnreachable)
nop(s) == opLog(s, 2)

(***************************************************************************)
(* Opcodes and the handler table                                           *)
(***************************************************************************)

\* The opcode bytes: the WebAssembly numbers (the ones opLog is called with)
\* and the lowering pass's internal opcodes.  Only their distinctness matters.
Op ==
    [unreachable |-> 0, nop |-> 1, JmpZ |-> 3, DiscardPreserveTop |-> 5,
     Discard |-> 11, Jmp |-> 12, JmpNz |-> 13, BrTable |-> 14, Return |-> 15,
     call |-> 16, callIndirect |-> 17, drop |-> 26,
     getLocal |-> 32, setLocal |-> 33, teeLocal |-> 34,
     getGlobal |-> 35, setGlobal |-> 36,
     i32Load |-> 40, i64Load |-> 41, f32Load |-> 42, f64Load |-> 43,
     i32Load8s |-> 44, i32Load8u |-> 45, i32Load16s |-> 46, i32Load16u |-> 47,
     i64Load8s |-> 48, i64Load8u |-> 49, i64Load16s |-> 50, i64Load16u |-> 51,
     i64Load32s |-> 52, i64Load32u |-> 53,
     i32Store |-> 54, i64Store |-> 55, f32Store |-> 56, f64Store |-> 57,
     i32Store8 |-> 58, i32Store16 |-> 59,
     i64Store8 |-> 60, i64Store16 |-> 61, i64Store32 |-> 62,
     currentMemory |-> 63, growMemory |-> 64,
     i32Const |-> 65, i64Const |-> 66,
     i32Add |-> 106, i32DivS |-> 109, i32DivU |-> 110, i32RemS |-> 111, i32RemU |-> 112,
     i64DivS |-> 127, i64DivU |-> 128, i64RemS |-> 129, i64RemU |-> 130,
     i32Shl |-> 116, i32ShrS |-> 117, i32ShrU |-> 118,
     i64Shl |-> 134, i64ShrS |-> 135, i64ShrU |-> 136,
     f32Copysign |-> 152, f64Copysign |-> 166, i32WrapI64 |-> 167]

LoadOps ==
    {Op.i32Load, Op.i64Load, Op.f32Load, Op.f64Load, Op.i32Load8s, Op.i32Load8u,
     Op.i32Load16s, Op.i32Load16u, Op.i64Load8s, Op.i64Load8u, Op.i64Load16s,
     Op.i64Load16u, Op.i64Load32s, Op.i64Load32u}
StoreOps ==
    {Op.i32Store, Op.i64Store, Op.f32Store, Op.f64Store, Op.i32Store8,
     Op.i32Store16, Op.i64Store8, Op.i64Store16, Op.i64Store32}
DivOps ==
    {Op.i32DivS, Op.i32DivU, Op.i32RemS, Op.i32RemU,
     Op.i64DivS, Op.i64DivU, Op.i64RemS, Op.i64RemU}

\* vm.funcTable[op](): the handler registered for an opcode that the dispatch
\* loop does not execute inline.
funcTable(op, s) ==
    CASE op = Op.unreachable -> unreachable(s)
      [] op = Op.nop -> nop(s)
      [] op = Op.drop -> drop(s)
      [] op = Op.getLocal -> getLocal(s)
      [] op = Op.setLocal -> setLocal(s)
      [] op = Op.teeLocal -> teeLocal(s)
      [] op = Op.getGlobal -> getGlobal(s)
      [] op = Op.setGlobal -> setGlobal(s)
      [] op = Op.currentMemory -> currentMemory(s)
      [] op = Op.growMemory -> growMemory(s)
      [] op = Op.i32Load -> i32Load(s)
      [] op = Op.i64Load -> i64Load(s)
      [] op = Op.f32Load -> f32Load(s)
      [] op = Op.f64Load -> f64Load(s)
      [] op = Op.i32Load8s -> i32Load8s(s)
      [] op = Op.i32Load8u -> i32Load8u(s)
      [] op = Op.i32Load16s -> i32Load16s(s)
      [] op = Op.i32Load16u -> i32Load16u(s)
      [] op = Op.i64Load8s -> i64Load8s(s)
      [] op = Op.i64Load8u -> i64Load8u(s)
      [] op = Op.i64Load16s -> i64Load16s(s)
      [] op = Op.i64Load16u -> i64Load16u(s)
      [] op = Op.i64Load32s -> i64Load32s(s)
      [] op = Op.i64Load32u -> i64Load32u(s)
      [] op = Op.i32Store -> i32Store(s)
      [] op = Op.i64Store -> i64Store(s)
      [] op = Op.f32Store -> f32Store(s)
      [] op = Op.f64Store -> f64Store(s)
      [] op = Op.i32Store8 -> i32Store8(s)
      [] op = Op.i32Store16 -> i32Store16(s)
      [] op = Op.i64Store8 -> i64Store8(s)
      [] op = Op.i64Store16 -> i64Store16(s)
      [] op = Op.i64Store32 -> i64Store32(s)
      [] op = Op.i32Const -> i32Const(s)
      [] op = Op.i64Const -> i64Const(s)
      [] op = Op.i32Add -> i32Add(s)
      [] op = Op.i32DivS -> i32DivS(s)
      [] op = Op.i32DivU -> i32DivU(s)
      [] op = Op.i32RemS -> i32RemS(s)
      [] op = Op.i32RemU -> i32RemU(s)
      [] op = Op.i64DivS -> i64DivS(s)
      [] op = Op.i64DivU -> i64DivU(s)
      [] op = Op.i64RemS -> i64RemS(s)
      [] op = Op.i64RemU -> i64RemU(s)
      [] op = Op.i32Shl -> ShiftOp(s, 4, "shl")
      [] op = Op.i32ShrS -> ShiftOp(s, 4, "shr_s")
      [] op = Op.i32ShrU -> ShiftOp(s, 4, "shr_u")
      [] op = Op.i64Shl -> ShiftOp(s, 8, "shl")
      [] op = Op.i64ShrS -> ShiftOp(s, 8, "shr_s")
      [] op = Op.i64ShrU -> ShiftOp(s, 8, "shr_u")
      [] op = Op.f32Copysign -> f32Copysign(s)
      [] op = Op.f64Copysign -> f64Copysign(s)
      [] op = Op.i32WrapI64 -> i32Wrapi64(s)

(***************************************************************************)
(* The module: the function index space, types and table                   *)
(***************************************************************************)

I32(n) == LE(n, 4)
I64(n) == LE(n, 8)
Instr(op, imm) == <<op>> \o imm

\* A lowered br_table target.
Target(addr, discard, preserveTop, return) ==
    [Addr |-> addr, Discard |-> discard, PreserveTop |-> preserveTop, Return |-> return]

Sig(params, returns) == [ParamTypes |-> params, ReturnTypes |-> returns]

\* A compiledFunction, as NewVM builds it from the signature, the
\* disassembly's MaxDepth and the lowered code.
Compiled(sig, nLocals, maxDepth, code, branchTables) ==
    [host |-> FALSE, Sig |-> sig, code |-> code, branchTables |-> branchTables,
     maxDepth |-> maxDepth, totalLocalVars |-> Len(sig.ParamTypes) + nLocals,
     args |-> Len(sig.ParamTypes), returns |-> Len(sig.ReturnTypes) # 0]

\* vm.funcs / module.FunctionIndexSpace, indexed from 0 in the code: the
\* functions of the module under test.
Funcs ==
    LET
        HostFunc(sig) ==
            [host |-> TRUE, Sig |-> sig, code |-> <<>>, branchTables |-> <<>>,
             maxDepth |-> 0, totalLocalVars |-> 0,
             args |-> Len(sig.ParamTypes), returns |-> Len(sig.ReturnTypes) # 0]

        \* div(a, b) = a / b: runs off the end of its code.
        FnDiv ==
            Compiled(Sig(<<"i32", "i32">>, <<"i32">>), 0, 2,
                Instr(Op.getLocal, I32(0)) \o Instr(Op.getLocal, I32(1))
                \o Instr(Op.i32DivS, <<>>), <<>>)

        \* callDiv(a, b) = div(a, b): a direct call, then return.
        FnCallDiv ==
            Compiled(Sig(<<"i32", "i32">>, <<"i32">>), 0, 2,
                Instr(Op.getLocal, I32(0)) \o Instr(Op.getLocal, I32(1))
                \o Instr(Op.call, I32(0)) \o Instr(Op.Return, <<>>), <<>>)

        \* indirect(i) = table[i](7), called through type 0, (i32) -> i32.
        FnIndirect ==
            Compiled(Sig(<<"i32">>, <<"i32">>), 0, 2,
                Instr(Op.i32Const, I32(7)) \o Instr(Op.getLocal, I32(0))
                \o Instr(Op.callIndirect, I32(0) \o I32(0)) \o Instr(Op.Return, <<>>), <<>>)

        \* id(x) = x, of type (i32) -> i32.
        FnId ==
            Compiled(Sig(<<"i32">>, <<"i32">>), 0, 1, Instr(Op.getLocal, I32(0)), <<>>)

        \* Callees whose type differs from (i32) -> i32 in one component each: the
        \* parameter type, the number of results, the result type.
        FnParamI64 ==
            Compiled(Sig(<<"i64">>, <<"i32">>), 0, 1, Instr(Op.unreachable, <<>>), <<>>)
        FnNoResult == Compiled(Sig(<<"i32">>, <<>>), 0, 1, Instr(Op.nop, <<>>), <<>>)
        FnResultI64 ==
            Compiled(Sig(<<"i32">>, <<"i64">>), 0, 1, Instr(Op.i64Const, I64(1)), <<>>)

        \* brt(i): block (result i32) { 10; 20; local 0; br_table 0 1 default 1 }; +1.
        \* Label 0 leaves the block with its result (the 10 under it discarded); label
        \* 1 and the default leave the function, so the lowering marks their targets
        \* as returns.
        FnBrTable ==
            Compiled(Sig(<<"i32">>, <<"i32">>), 0, 3,
                Instr(Op.i32Const, I32(10)) \o Instr(Op.i32Const, I32(20))
                \o Instr(Op.getLocal, I32(0)) \o Instr(Op.BrTable, I64(0))
                \o Instr(Op.i32Const, I32(1)) \o Instr(Op.i32Add, <<>>),
                << [Targets |-> <<Target(24, 2, TRUE, FALSE), Target(0, 2, TRUE, TRUE)>>,
                    DefaultTarget |-> Target(0, 2, TRUE, TRUE)] >>)

        \* store(base, v): mem32[base + 4] = v; nothing is returned.
        FnStore ==
            Compiled(Sig(<<"i32", "i32">>, <<>>), 0, 2,
                Instr(Op.getLocal, I32(0)) \o Instr(Op.getLocal, I32(1))
                \o Instr(Op.i32Store, I32(4)), <<>>)

        \* deep() pushes two values although its recorded MaxDepth is 1 (what an
        \* unvalidated or miscompiled body looks like to the interpreter).
        FnDeep ==
            Compiled(Sig(<<>>, <<"i32">>), 0, 1,
                Instr(Op.i32Const, I32(1)) \o Instr(Op.i32Const, I32(2))
                \o Instr(Op.i32Add, <<>>), <<>>)

        FnHost == HostFunc(Sig(<<"i32">>, <<>>))

        \* callHost(): host(1); 5.
        FnCallHost ==
            Compiled(Sig(<<>>, <<"i32">>), 0, 1,
                Instr(Op.i32Const, I32(1)) \o Instr(Op.call, I32(10))
                \o Instr(Op.i32Const, I32(5)), <<>>)

        \* ctl(x): the lowered form of
        \*   if x = 0 then 9 else block { 1; 2; 3; keep the top, drop 1; drop 1;
        \*                                 br_if (x - 1) };
        \* with every jump and discard opcode of the lowering in it.
        FnCtl ==
            Compiled(Sig(<<"i32">>, <<"i32">>), 0, 3,
                Instr(Op.getLocal, I32(0))                                 \* 0
                \o Instr(Op.JmpZ, I64(85))                                 \* 5
                \o Instr(Op.i32Const, I32(1))                              \* 14
                \o Instr(Op.i32Const, I32(2))                              \* 19
                \o Instr(Op.i32Const, I32(3))                              \* 24
                \o Instr(Op.DiscardPreserveTop, I64(2))                    \* 29
                \o Instr(Op.Discard, I64(1))                               \* 38
                \o Instr(Op.getLocal, I32(0))                              \* 47
                \o Instr(Op.i32Const, <<255, 255, 255, 255>>)              \* 52
                \o Instr(Op.i32Add, <<>>)                                  \* 57
                \o Instr(Op.JmpNz, I64(90) \o <<1>> \o I64(1))             \* 58
                \o Instr(Op.Jmp, I64(90))                                  \* 76
                \o Instr(Op.i32Const, I32(9))                              \* 85
                \o Instr(Op.Return, <<>>), <<>>)                           \* 90
        \* setg(): local l; l = 9; global 0 = l.
        FnSetGlobal ==
            Compiled(Sig(<<>>, <<>>), 1, 1,
                Instr(Op.i32Const, I32(9)) \o Instr(Op.teeLocal, I32(0))
                \o Instr(Op.setGlobal, I32(0)), <<>>)
        \* grow(n) = grow_memory(n): the size before, in pages.
        FnGrow ==
            Compiled(Sig(<<"i32">>, <<"i32">>), 0, 1,
                Instr(Op.getLocal, I32(0)) \o Instr(Op.growMemory, <<0>>), <<>>)
    IN  << FnDiv, FnCallDiv, FnIndirect, FnId, FnParamI64, FnNoResult,
           FnResultI64, FnBrTable, FnStore, FnDeep, FnHost, FnCallHost, FnCtl,
           FnSetGlobal, FnGrow >>
Func(i) == Funcs[i + 1]
NumFuncs == Len(Funcs)

\* module.Types.Entries.
Types == << Sig(<<"i32">>, <<"i32">>) >>

\* The module's table index space: no table at all, an empty table, or one
\* table of function indices (id, div, and the three near misses).
TableSpaces == { <<>>, << <<>> >>, << <<3, 0, 4, 5, 6>> >> }

\* The module's globals' initializers, one global.
GlobalInit == << I64(0) >>

(***************************************************************************)
(* Control state shared by the actions                                     *)
(***************************************************************************)

Nil == "nil"
NoValue == <<>>
ErrInvalidArgumentCount == "exec: invalid number of arguments to function"
InvalidFunctionIndexError(e) == "Invalid index to function index space: " \o ToString(e)

\* The recover wrapping every panic value, errors too.
RecoveredErrMutant(p) == "exec: " \o p
\* A panic value that is not an error (a string): ExecCode's recover wraps it.
RecoveredErr(p) == IF p \in {StackExceeded, NotCompiled} THEN "exec: " \o p ELSE p

\* The state the handlers run on, taken from the variables.
Machine == [vm |-> vm, opNum |-> opNum, db |-> db, panic |-> NoPanic]

\* The variables a handler's result determines.
Apply(r) ==
    vm' = r.vm /\ opNum' = r.opNum /\ db' = r.db /\ UNCHANGED debugStackDepth

\* ExecCode's outcome: the pair it returns, or the panic that left it.
Returned(rtrn, err) == [rtrn |-> rtrn, err |-> err, panic |-> NoPanic]
NoResult == Returned(NoValue, Nil)

\* A panic raised under ExecCode unwinds every Go frame below it.  With
\* RecoverPanic the deferred function stores it in err and ExecCode returns
\* whatever the named result rtrn held; without, the panic leaves ExecCode.
Unwound(call, r, rtrn) ==
    IF r.vm.RecoverPanic
    THEN [call EXCEPT !.state = "idle", !.pos = "none",
                      !.result = Returned(rtrn, RecoveredErr(r.panic))]
    ELSE [call EXCEPT !.state = "unwound", !.pos = "none",
                      !.result = [rtrn |-> NoValue, err |-> Nil, panic |-> r.panic]]

Unwind(r, rtrn) == callStack' = <<>> /\ run' = Unwound(run, r, rtrn)

\* A loop condition that does not look at the abort flag.
LoopingMutant(v) == v.ctx.pc < Len(v.ctx.code)
\* The dispatch loop's condition.
Looping(v) == v.ctx.pc < Len(v.ctx.code) /\ ~v.abort

InLoop == run.state = "exec" /\ run.pos = "loop" /\ Looping(vm)

\* op := vm.ctx.code[vm.ctx.pc]; vm.ctx.pc++
NextOp == vm.ctx.code[vm.ctx.pc + 1]
Fetched == [Machine EXCEPT !.vm.ctx.pc = @ + 1]

\* A step of the loop whose handler returned r: the loop goes on (or, after
\* a break, is left), or the panic unwinds.
StepDone(op, r) ==
    /\ Apply(r)
    /\ last' = op
    /\ IF Ok(r) THEN UNCHANGED <<run, callStack>> ELSE Unwind(r, NoValue)

StepBreak(op, r) ==
    /\ Apply(r)
    /\ last' = op
    /\ IF Ok(r) THEN run' = [run EXCEPT !.pos = "exit"] /\ UNCHANGED callStack
       ELSE Unwind(r, NoValue)

\* The default case: vm.funcTable[op]().
StepOp(op) ==
    /\ InLoop
    /\ NextOp = op
    /\ StepDone(op, funcTable(op, Fetched))

(***************************************************************************)
(* The opcodes execCode executes inline                                    *)
(***************************************************************************)

\* var top; if preserveTop { top = stack[len-1] }; stack = stack[:len-discard];
\* if preserveTop { pushUint64(top) }.  The lowering emits discard >= 0.
DiscardStack(s, discard, preserveTop) ==
    LET stack == s.vm.ctx.stack
    IN  IF ~Ok(s) THEN s
        ELSE IF preserveTop /\ Len(stack) = 0 THEN Panic(s, IndexOutOfRange)
        ELSE IF discard > Len(stack) THEN Panic(s, SliceOutOfRange)
        ELSE LET cut == [s EXCEPT !.vm.ctx.stack = SubSeq(stack, 1, Len(stack) - discard)]
             IN  IF preserveTop THEN pushUint64(cut, stack[Len(stack)]) ELSE cut

\* case ops.Return
StepReturn == InLoop /\ NextOp = Op.Return /\ StepBreak(Op.Return, opLog(Fetched, 2))

\* case compile.OpJmp
StepJmp ==
    LET target == fetchInt64(Fetched)
        r == opLog([target.s EXCEPT !.vm.ctx.pc = ToInt(target.v)], 3)
    IN  InLoop /\ NextOp = Op.Jmp /\ StepDone(Op.Jmp, r)

\* case compile.OpJmpZ
StepJmpZ ==
    LET target == fetchInt64(Fetched)
        p == popUint32(target.s)
        r == IF ~Ok(p.s) THEN p.s
             ELSE IF p.v = ZeroBytes(4)
             THEN opLog([p.s EXCEPT !.vm.ctx.pc = ToInt(target.v)], 5)
             ELSE opLog(p.s, 5)
    IN  InLoop /\ NextOp = Op.JmpZ /\ StepDone(Op.JmpZ, r)

\* case compile.OpJmpNz
StepJmpNz ==
    LET target == fetchInt64(Fetched)
        preserveTop == fetchBool(target.s)
        discard == fetchInt64(preserveTop.s)
        p == popUint32(discard.s)
        r == IF ~Ok(p.s) THEN p.s
             ELSE IF p.v # ZeroBytes(4)
             THEN opLog(DiscardStack([p.s EXCEPT !.vm.ctx.pc = ToInt(target.v)],
                                     ToInt(discard.v), preserveTop.v), 7)
             ELSE opLog(p.s, 7)
    IN  InLoop /\ NextOp = Op.JmpNz /\ StepDone(Op.JmpNz, r)

\* br_table branching to the selected target whether or not it is flagged as
\* a return.
StepBrTableMutant ==
    LET index == fetchInt64(Fetched)
        label == popInt32(index.s)
        table == Func(vm.ctx.curFunc).branchTables[ToInt(index.v) + 1]
        target == IF ~IsNeg(label.v) /\ ToInt(label.v) < Len(table.Targets)
                  THEN table.Targets[ToInt(label.v) + 1]
                  ELSE table.DefaultTarget
    IN  /\ InLoop
        /\ NextOp = Op.BrTable
        /\ IF ~Ok(label.s) THEN StepDone(Op.BrTable, label.s)
           ELSE StepDone(Op.BrTable,
                         DiscardStack([label.s EXCEPT !.vm.ctx.pc = target.Addr],
                                      target.Discard, target.PreserveTop))

\* case ops.BrTable.  A target with the Return flag breaks out of the loop
\* before the branch's discard; no record is logged on either path.
StepBrTable ==
    LET index == fetchInt64(Fetched)
        label == popInt32(index.s)
        table == Func(vm.ctx.curFunc).branchTables[ToInt(index.v) + 1]
        target == IF ~IsNeg(label.v) /\ ToInt(label.v) < Len(table.Targets)
                  THEN table.Targets[ToInt(label.v) + 1]
                  ELSE table.DefaultTarget
    IN  /\ InLoop
        /\ NextOp = Op.BrTable
        /\ IF ~Ok(label.s) THEN StepDone(Op.BrTable, label.s)
           ELSE IF target.Return THEN StepBreak(Op.BrTable, label.s)
           ELSE StepDone(Op.BrTable,
                         DiscardStack([label.s EXCEPT !.vm.ctx.pc = target.Addr],
                                      target.Discard, target.PreserveTop))

\* case compile.OpDiscard
StepDiscard ==
    LET place == fetchInt64(Fetched)
        r == opLog(DiscardStack(place.s, ToInt(place.v), FALSE), 3)
    IN  InLoop /\ NextOp = Op.Discard /\ StepDone(Op.Discard, r)

\* case compile.OpDiscardPreserveTop (the top is read before the immediate)
StepDiscardPreserveTop ==
    LET place == fetchInt64(Fetched)
        r == IF Len(vm.ctx.stack) = 0 THEN Panic(Fetched, IndexOutOfRange)
             ELSE opLog(DiscardStack(place.s, ToInt(place.v), TRUE), 3)
    IN  InLoop /\ NextOp = Op.DiscardPreserveTop /\ StepDone(Op.DiscardPreserveTop, r)

(***************************************************************************)
(* call and call_indirect                                                  *)
(***************************************************************************)

\* callIndirect comparing only the counts and the result types.
SignatureMatchesMutant(fnExpect, sig) ==
    /\ Len(fnExpect.ParamTypes) = Len(sig.ParamTypes)
    /\ Len(fnExpect.ReturnTypes) = Len(sig.ReturnTypes)
    /\ \A i \in DOMAIN fnExpect.ReturnTypes : fnExpect.ReturnTypes[i] = sig.ReturnTypes[i]

\* The component-wise comparison callIndirect makes between the expected
\* type and the resolved callee's signature.
SignatureMatches(fnExpect, sig) ==
    /\ Len(fnExpect.ParamTypes) = Len(sig.ParamTypes)
    /\ Len(fnExpect.ReturnTypes) = Len(sig.ReturnTypes)
    /\ \A i \in DOMAIN fnExpect.ParamTypes : fnExpect.ParamTypes[i] = sig.ParamTypes[i]
    /\ \A i \in DOMAIN fnExpect.ReturnTypes : fnExpect.ReturnTypes[i] = sig.ReturnTypes[i]

\* callIndirect up to the call it makes: the callee's function index, or the
\* panic.  TableIndexSpace[0] is indexed before anything is checked.
callIndirect(s) ==
    LET index == fetchUint32(s)
        reserved == fetchUint32(index.s)
        tableIndex == popUint32(reserved.s)
        spaces == s.vm.module.TableIndexSpace
        table == spaces[1]
        elemIndex == table[ToInt(tableIndex.v) + 1]
    IN  IF ~Ok(tableIndex.s) THEN [s |-> tableIndex.s, elemIndex |-> -1]
        ELSE IF Len(spaces) = 0
        THEN [s |-> Panic(tableIndex.s, IndexOutOfRange), elemIndex |-> -1]
        ELSE IF ~IndexOk(tableIndex.v, Len(table))
        THEN [s |-> Panic(tableIndex.s, ErrUndefinedElementIndex), elemIndex |-> -1]
        ELSE IF ~SignatureMatches(Types[ToInt(index.v) + 1], Func(elemIndex).Sig)
        THEN [s |-> Panic(tableIndex.s, ErrSignatureMismatch), elemIndex |-> elemIndex]
        ELSE [s |-> opLog(tableIndex.s, 3), elemIndex |-> elemIndex]

\* call up to the call it makes: the function index and the start record.
call(s) ==
    LET index == fetchUint32(s)
    IN  IF ~IndexOk(index.v, NumFuncs)
        THEN [s |-> Panic(index.s, IndexOutOfRange), elemIndex |-> -1]
        ELSE [s |-> opLog(index.s, 4), elemIndex |-> ToInt(index.v)]

\* for i := args - 1; i >= 0; i-- { locals[i] = vm.popUint64() }
RECURSIVE PopArgs(_, _, _)
PopArgs(s, locals, i) ==
    IF i = 0 THEN [s |-> s, locals |-> locals]
    ELSE LET p == popUint64(s)
         IN  PopArgs(p.s, [locals EXCEPT ![i] = p.v], i - 1)

\* compiledFunction.call up to its execCode: the arguments leave the caller's
\* stack for the callee's locals, the caller's context is saved (prevCtxt),
\* and the callee starts on a fresh stack of capacity maxDepth + 1.
compiledCall(s, index) ==
    LET compiled == Func(index)
        a == PopArgs(s, ZeroSlots(compiled.totalLocalVars), compiled.args)
    IN  [prevCtxt |-> a.s.vm.ctx,
         s |-> IF ~Ok(a.s) THEN a.s
               ELSE [a.s EXCEPT !.vm.ctx =
                        [stack |-> <<>>, cap |-> compiled.maxDepth + 1,
                         locals |-> a.locals, code |-> compiled.code,
                         pc |-> 0, curFunc |-> index]]]

\* goFunction.call: the host function's arguments are popped and it runs with
\* a Process handle; terminate tells whether it calls Process.Terminate.  The
\* host functions of this module return nothing.
goCall(s, index, terminate) ==
    LET a == PopArgs(s, ZeroSlots(Func(index).args), Func(index).args)
    IN  IF Ok(a.s) /\ terminate THEN [a.s EXCEPT !.vm.abort = TRUE] ELSE a.s

(***************************************************************************)
(* ExecCode and the dispatch loop                                          *)
(***************************************************************************)

\* The number of ExecCode calls a behaviour makes.
MaxCalls == 2

\* wasm.Module.GetFunction: a pointer to the function, nil (no element) for
\* an index outside the function index space.
GetFunction(i) == IF i < 0 \/ i >= NumFuncs THEN <<>> ELSE <<Func(i)>>

InvalidReturnTypeError == "Function has invalid return value_type"

\* execCode after its loop: the result word, vm.ctx.stack[len-1] when the
\* function returns a value.
execCodeResult(s) ==
    LET stack == s.vm.ctx.stack
    IN  IF ~Func(s.vm.ctx.curFunc).returns THEN [s |-> s, v |-> ZeroBytes(8)]
        ELSE IF Len(stack) = 0
        THEN [s |-> Panic(s, IndexOutOfRange), v |-> ZeroBytes(8)]
        ELSE [s |-> s, v |-> stack[Len(stack)]]

\* ExecCode with its argument check passing every argument list.
ArgCountOkMutant(fnIndex, args) == TRUE

\* len(vm.module.GetFunction(int(fnIndex)).Sig.ParamTypes) == len(args)
ArgCountOk(fnIndex, args) == Len(GetFunction(fnIndex)[1].Sig.ParamTypes) = Len(args)

\* ExecCode up to its call of execCode.
ExecCode(fnIndex, args) ==
    LET started == [run EXCEPT !.calls = @ + 1, !.fnIndex = fnIndex, !.args = args,
                               !.result = NoResult, !.api = "ExecCode"]
        compiled == Func(fnIndex)
        depth == compiled.maxDepth + 1
    IN  /\ run.state = "idle"
        /\ run.calls < MaxCalls
        /\ last' = -1
        /\ callStack' = <<>>
        /\ UNCHANGED <<opNum, db, debugStackDepth>>
        /\ IF fnIndex > Len(Funcs)
           THEN /\ vm' = vm
                /\ run' = [started EXCEPT
                             !.result = Returned(NoValue, InvalidFunctionIndexError(fnIndex))]
           ELSE IF GetFunction(fnIndex) = <<>>
           THEN /\ vm' = vm
                /\ run' = Unwound(started, Panic(Machine, NilDereference), NoValue)
           ELSE IF ~ArgCountOk(fnIndex, args)
           THEN /\ vm' = vm
                /\ run' = [started EXCEPT !.result = Returned(NoValue, ErrInvalidArgumentCount)]
           ELSE IF compiled.host
           THEN /\ vm' = vm
                /\ run' = Unwound(started, Panic(Machine, NotCompiled), NoValue)
           ELSE /\ vm' = [vm EXCEPT !.ctx =
                            [stack |-> <<>>,
                             cap |-> IF @.cap < depth THEN depth ELSE @.cap,
                             locals |-> args \o ZeroSlots(compiled.totalLocalVars - Len(args)),
                             code |-> compiled.code, pc |-> 0, curFunc |-> fnIndex]]
                /\ run' = [started EXCEPT !.state = "exec", !.pos = "loop"]

\* vm.funcs[index].call(vm, index) from the handler op, whose part before the
\* call gave c: a host function runs to its end within the handler, which
\* then logs its end record; a compiled function's activation is entered,
\* the caller's context kept in the handler's Go frame.
Invoke(op, c, endFields) ==
    IF ~Ok(c.s) THEN StepDone(op, c.s)
    ELSE IF Func(c.elemIndex).host
    THEN \E terminate \in BOOLEAN :
            StepDone(op, opLog(goCall(c.s, c.elemIndex, terminate), endFields))
    ELSE LET e == compiledCall(c.s, c.elemIndex)
         IN  /\ Apply(e.s)
             /\ last' = op
             /\ IF Ok(e.s)
                THEN /\ run' = run
                     /\ callStack' = Append(callStack, [ctx |-> e.prevCtxt, op |-> op,
                                                        endFields |-> endFields])
                ELSE Unwind(e.s, NoValue)

StepCall == InLoop /\ NextOp = Op.call /\ Invoke(Op.call, call(Fetched), 4)
StepCallIndirect ==
    InLoop /\ NextOp = Op.callIndirect /\ Invoke(Op.callIndirect, callIndirect(Fetched), 3)

\* The loop condition fails: the code has run off its end, or abort is set.
LoopEnd ==
    /\ run.state = "exec"
    /\ run.pos = "loop"
    /\ ~Looping(vm)
    /\ run' = [run EXCEPT !.pos = "exit"]
    /\ UNCHANGED <<vm, opNum, db, debugStackDepth, callStack, last>>

\* execCode returns to compiledFunction.call: the caller's context is
\* restored, the result pushed on its stack, and the call handler logs its
\* end record.
CallReturn ==
    /\ run.state = "exec"
    /\ run.pos = "exit"
    /\ callStack # <<>>
    /\ LET frame == callStack[Len(callStack)]
           res == execCodeResult(Machine)
           restored == IF Ok(res.s) THEN [res.s EXCEPT !.vm.ctx = frame.ctx] ELSE res.s
           pushed == IF Func(vm.ctx.curFunc).returns
                     THEN pushUint64(restored, res.v) ELSE restored
           r == opLog(pushed, frame.endFields)
       IN  /\ Apply(r)
           /\ last' = frame.op
           /\ IF Ok(r)
              THEN /\ run' = [run EXCEPT !.pos = "loop"]
                   /\ callStack' = SubSeq(callStack, 1, Len(callStack) - 1)
              ELSE Unwind(r, NoValue)

\* execCode returns to ExecCode: the result word is converted to the declared
\* result type, the deferred commit of the telemetry transaction runs, and
\* ExecCode returns.
ExecCodeReturn ==
    /\ run.state = "exec"
    /\ run.pos = "exit"
    /\ callStack = <<>>
    /\ last' = last
    /\ LET res == execCodeResult(Machine)
           compiled == Func(run.fnIndex)
           type == GetFunction(run.fnIndex)[1].Sig.ReturnTypes[1]
           ReturnValue ==
               CASE type = "i32" -> <<"uint32", Trunc(res.v, 4)>>
                 [] type = "i64" -> <<"uint64", res.v>>
                 [] type = "f32" -> <<"float32", Trunc(res.v, 4)>>
                 [] type = "f64" -> <<"float64", res.v>>
           rtrn == IF compiled.returns THEN ReturnValue ELSE NoValue
           committed == Commit(res.s)
       IN  IF ~Ok(res.s) THEN Apply(res.s) /\ Unwind(res.s, NoValue)
           ELSE IF compiled.returns /\ type \notin {"i32", "i64", "f32", "f64"}
           THEN /\ Apply(res.s)
                /\ callStack' = <<>>
                /\ run' = [run EXCEPT !.state = "idle", !.pos = "none",
                                      !.result = Returned(NoValue, InvalidReturnTypeError)]
           ELSE /\ Apply(committed)
                /\ IF Ok(committed)
                   THEN /\ callStack' = <<>>
                        /\ run' = [run EXCEPT !.state = "idle", !.pos = "none",
                                              !.result = Returned(rtrn, Nil)]
                   ELSE Unwind(committed, rtrn)

(***************************************************************************)
(* Restart and Close                                                       *)
(***************************************************************************)

\* resetGlobals: every global gets the value of its initializer expression.
resetGlobals(v) == [v EXCEPT !.globals = GlobalInit]

\* The embedder is between two operations on the VM (a panic that left
\* ExecCode was recovered by the embedder); op is the operation it makes.
Between(op) ==
    /\ run.state # "exec"
    /\ run' = [run EXCEPT !.state = "idle", !.pos = "none", !.api = op,
                          !.result = NoResult]
    /\ UNCHANGED <<opNum, db, debugStackDepth, callStack, last>>

\* Restart without the reset of the abort flag.
RestartMutant ==
    /\ Between("Restart")
    /\ vm' = [resetGlobals(vm) EXCEPT !.ctx.locals = <<>>]

\* Restart: resetGlobals, empty locals, abort cleared.
Restart ==
    /\ Between("Restart")
    /\ vm' = [resetGlobals(vm) EXCEPT !.ctx.locals = <<>>, !.abort = FALSE]

\* Close: abort is set; the VM has no native backend to close.
Close ==
    /\ Between("Close")
    /\ vm' = [vm EXCEPT !.abort = TRUE]

(***************************************************************************)
(* Process: the proxy that reads and writes the linear memory              *)
(***************************************************************************)

\* Process.ReadAt(p, off): length is what remains of the memory after off
\* when p reaches past its end, len(p) otherwise, and
\* copy(p, mem[off:off+length]) follows.  The slice expression panics unless
\* 0 <= off <= off+length <= cap(mem); off+length never exceeds len(mem).
\* The embedder makes the call between two operations on the VM, here before
\* its first call of ExecCode.
ReadAt(p, off) ==
    LET mem == vm.memory
        length == IF mem.len < Len(p) + off THEN mem.len - off ELSE Len(p)
        made == [run EXCEPT !.pos = "none", !.api = "ReadAt", !.args = <<I64(off), p>>]
    IN  /\ run.state # "exec" /\ run.calls = 0
        /\ UNCHANGED <<vm, opNum, db, debugStackDepth, callStack, last>>
        /\ IF ~(0 <= off /\ off <= off + length /\ off + length <= mem.len)
           THEN run' = [made EXCEPT !.state = "unwound",
                          !.result = [rtrn |-> NoValue, err |-> Nil, panic |-> SliceOutOfRange]]
           ELSE run' = [made EXCEPT !.state = "idle",
                          !.result = Returned(<<I64(length),
                                                MemRead(Machine, off, length)
                                                   \o SubSeq(p, length + 1, Len(p))>>,
                                              IF length < Len(p) THEN "short buffer" ELSE Nil)]

\* Process.WriteAt(p, off): the same length, then copy(mem[off:], p[:length]);
\* mem[off:] panics unless 0 <= off <= len(mem), p[:length] unless
\* 0 <= length <= cap(p).
WriteAt(p, off) ==
    LET mem == vm.memory
        length == IF mem.len < Len(p) + off THEN mem.len - off ELSE Len(p)
        made == [run EXCEPT !.pos = "none", !.api = "WriteAt", !.args = <<I64(off), p>>]
    IN  /\ run.state # "exec" /\ run.calls = 0
        /\ UNCHANGED <<opNum, db, debugStackDepth, callStack, last>>
        /\ IF ~(0 <= off /\ off <= mem.len /\ 0 <= length /\ length <= Len(p))
           THEN /\ vm' = vm
                /\ run' = [made EXCEPT !.state = "unwound",
                             !.result = [rtrn |-> NoValue, err |-> Nil,
                                         panic |-> SliceOutOfRange]]
           ELSE /\ vm' = [vm EXCEPT !.memory = MemPut(@, off, SubSeq(p, 1, length))]
                /\ run' = [made EXCEPT !.state = "idle",
                             !.result = Returned(<<I64(length), p>>,
                                                 IF length < Len(p) THEN "short write" ELSE Nil)]

(***************************************************************************)
(* Spec: a VM from NewVM on, driven through ExecCode                       *)
(***************************************************************************)

\* NewVM: the memory with its data segment, the globals initialized, the
\* telemetry transaction begun when a connection pool was passed.  The
\* embedder sets RecoverPanic; the build fixes debugStackDepth; the package
\* counter starts at zero.
NewVM(recover, sink, table) ==
    [ctx |-> [stack |-> <<>>, cap |-> 0, locals |-> <<>>, code |-> <<>>,
              pc |-> 0, curFunc |-> 0],
     globals |-> GlobalInit,
     memory |-> [len |-> wasmPageSize, data |-> (0 :> 1) @@ (65535 :> 200)],
     abort |-> FALSE,
     RecoverPanic |-> recover,
     module |-> [TableIndexSpace |-> table],
     pg |-> sink,
     PgTx |-> IF sink THEN [status |-> "open", n |-> 0] ELSE [status |-> "nil", n |-> 0]]

Init ==
    /\ \E recover \in BOOLEAN, sink \in BOOLEAN, table \in TableSpaces :
          vm = NewVM(recover, sink, table)
    /\ opNum = 0
    /\ db = [rows |-> 0, commits |-> 0, batch |-> 0]
    /\ debugStackDepth \in BOOLEAN
    /\ run = [state |-> "idle", pos |-> "none", api |-> "NewVM", fnIndex |-> 0,
              args |-> <<>>, calls |-> 0, result |-> NoResult]
    /\ callStack = <<>>
    /\ last = -1

\* The argument lists the embedder passes to each function: the operands its
\* body distinguishes, and one list of the wrong length.
ExecArgs(fnIndex) ==
    CASE fnIndex = 0 ->
            { <<I64(7), I64(2)>>, <<I64(7), I64(0)>>,
              <<I32(0) \o <<0, 0, 0, 128>>, I32(0) \o <<255, 255, 255, 255>> >>,
              <<I64(7)>> }
      [] fnIndex = 1 -> { <<I64(7), I64(2)>>, <<I64(7), I64(0)>>, <<>> }
      [] fnIndex = 2 -> { <<I64(k)>> : k \in 0..5 } \cup { <<>> }
      [] fnIndex = 3 -> { <<I64(7)>>, <<I64(7), I64(7)>> }
      [] fnIndex \in {4, 5, 6} -> { <<I64(7)>> }
      [] fnIndex = 7 ->
            { <<I64(k)>> : k \in 0..2 } \cup { << <<255, 255, 255, 255, 0, 0, 0, 0>> >> }
      [] fnIndex = 8 ->
            { <<I64(65528), I64(513)>>, <<I64(65532), I64(513)>>, <<I64(0)>> }
      [] fnIndex = 9 -> { <<>>, <<I64(1)>> }
      [] fnIndex = 10 -> { <<I64(7)>>, <<>> }
      [] fnIndex = 11 -> { <<>> }
      [] fnIndex = 12 -> { <<I64(k)>> : k \in 0..2 }
      [] fnIndex = 14 -> { <<I64(1)>>, <<I64(65536)>>, << <<255, 255, 255, 255, 0, 0, 0, 0>> >> }
      [] OTHER -> { <<>> }

\* The embedder passes every function index and the indices just outside
\* the function index space on either side; the dispatch loop hands every
\* opcode it has no case for to vm.funcTable.
\* Through a Process it reads and writes the memory before its first call of
\* ExecCode: at the last two bytes, at the end and one byte past it, with
\* buffers that fit, that reach past the end, and that are empty.
Next ==
    \/ \E fnIndex \in (0 - 1)..(NumFuncs + 1) :
          \E args \in ExecArgs(fnIndex) : ExecCode(fnIndex, args)
    \/ StepReturn
    \/ StepJmp
    \/ StepJmpZ
    \/ StepJmpNz
    \/ StepBrTable
    \/ StepDiscard
    \/ StepDiscardPreserveTop
    \/ StepCall
    \/ StepCallIndirect
    \/ \E op \in LoadOps \cup StoreOps \cup DivOps
                 \cup {Op.unreachable, Op.nop, Op.drop, Op.getLocal, Op.setLocal,
                       Op.teeLocal, Op.getGlobal, Op.setGlobal, Op.i32Const,
                       Op.i64Const, Op.i32Add, Op.growMemory} : StepOp(op)
    \/ LoopEnd
    \/ CallReturn
    \/ ExecCodeReturn
    \/ Restart
    \/ Close
    \/ \E p \in {<<7, 8, 9>>, <<7, 8>>, <<>>} :
          \E off \in {wasmPageSize - 2, wasmPageSize, wasmPageSize + 1} :
             ReadAt(p, off) \/ WriteAt(p, off)

Spec == Init /\ [][Next]_vars

(***************************************************************************)
(* SpecOps: one handler applied to a drawn state of a running activation   *)
(***************************************************************************)

\* The largest initial page count drawn.
MaxPages == 1

\* 64-bit stack slots, written as their low and high 32-bit halves.
Slot(lo, hi) == lo \o hi
U32Max == <<255, 255, 255, 255>>
Int32Min == <<0, 0, 0, 128>>
Int64Min == Slot(I32(0), Int32Min)

\* NewVM: make([]byte, Initial*wasmPageSize), then copy of the data segment:
\* bytes with and without the top bit, at the start and at the end of the
\* first page.
InitialMemory(pages) ==
    LET DataSegment ==
            (0 :> 1) @@ (3 :> 128) @@ (4 :> 255) @@ (7 :> 9) @@ (65528 :> 129)
            @@ (65531 :> 240) @@ (65532 :> 7) @@ (65535 :> 200)
    IN  [len |-> pages * wasmPageSize,
         data |-> IF pages = 0 THEN << >> ELSE DataSegment]

\* The instruction under test with its immediate, and the operands below it.
\* AddrSlots: base addresses around the end of the first page and of the
\* 32-bit range, with clean and with non-zero upper halves of the slot.
\* Offsets: static offsets, the last two wrapping the 32-bit sum.
\* NumSlots: dividends and divisors 0, 1, 2, -1, 7, -7 and the most negative
\* values.  GrowSlots: page deltas 0, 1, 2, 2^15, 2^16 - 1, 2^16 and -1.
\* ShiftSlots, CountSlots: values with and without the top bit of either
\* width, shifted by 0, 1, and the counts around 32 and 64, 2^32 - 1 and
\* 2^32 + 1.  FloatSlots: 1.0 and -2.0 as float32 and as float64.
\* rest is the code after the instruction under test.
OpsInputs ==
    LET AddrSlots ==
            { Slot(I32(a), I32(0)) :
                a \in {0, 1, 65528, 65529, 65532, 65533, 65535, 65536,
                       131068, 131072, 2147483647} }
            \cup { Slot(Int32Min, I32(0)), Slot(U32Max, I32(0)),
                   Slot(LE(65532, 4), U32Max), Slot(<<252, 255, 255, 255>>, U32Max) }
        Offsets == { I32(0), I32(1), I32(4), <<252, 255, 255, 255>>, U32Max }
        StoreSlots ==
            { Slot(<<17, 34, 51, 196>>, <<85, 102, 119, 136>>), Slot(I32(0), I32(0)) }
        NumSlots ==
            { Slot(I32(0), I32(0)), Slot(I32(1), I32(0)), Slot(I32(7), I32(0)),
              Slot(I32(2), I32(0)), Slot(U32Max, I32(0)), Slot(U32Max, U32Max),
              Slot(<<249, 255, 255, 255>>, U32Max),
              Slot(Int32Min, I32(0)), Slot(Int32Min, U32Max), Int64Min }
        GrowSlots ==
            { Slot(I32(0), I32(0)), Slot(I32(1), U32Max), Slot(I32(2), I32(0)),
              Slot(I32(32768), I32(0)), Slot(I32(65535), I32(0)),
              Slot(I32(65536), I32(0)), Slot(U32Max, I32(0)) }
        ShiftSlots ==
            { Slot(I32(1), I32(0)), Slot(<<1, 0, 0, 128>>, I32(0)),
              Slot(<<1, 0, 0, 128>>, <<0, 0, 0, 128>>) }
        CountSlots ==
            { Slot(I32(k), I32(0)) : k \in {0, 1, 31, 32, 33, 63, 64, 65} }
            \cup { Slot(U32Max, I32(0)), Slot(I32(1), I32(1)) }
        FloatSlots ==
            { Slot(<<0, 0, 128, 63>>, I32(0)), Slot(<<0, 0, 0, 192>>, I32(0)),
              Slot(I32(0), <<0, 0, 240, 63>>), Slot(I32(0), <<0, 0, 0, 192>>) }
    IN  { [op |-> o, imm |-> off, stack |-> <<Slot(I32(5), I32(0)), b>>, pages |-> pg,
           rest |-> <<>>] :
            o \in LoadOps, off \in Offsets, b \in AddrSlots, pg \in 0..MaxPages }
        \cup
        { [op |-> o, imm |-> off, stack |-> <<b, v>>, pages |-> pg, rest |-> <<>>] :
            o \in StoreOps, off \in Offsets, b \in AddrSlots, v \in StoreSlots,
            pg \in 0..MaxPages }
        \cup
        { [op |-> o, imm |-> <<>>, stack |-> <<a, b>>, pages |-> 1, rest |-> <<>>] :
            o \in DivOps \cup {Op.i32Add}, a \in NumSlots, b \in NumSlots }
        \cup
        { [op |-> o, imm |-> <<>>, stack |-> <<v, k>>, pages |-> 1, rest |-> <<>>] :
            o \in {Op.i32Shl, Op.i32ShrS, Op.i32ShrU, Op.i64Shl, Op.i64ShrS, Op.i64ShrU},
            v \in ShiftSlots, k \in CountSlots }
        \cup
        { [op |-> o, imm |-> <<>>, stack |-> <<x, y>>, pages |-> 1, rest |-> <<>>] :
            o \in {Op.f32Copysign, Op.f64Copysign}, x \in FloatSlots, y \in FloatSlots }
        \cup
        { [op |-> Op.i32WrapI64, imm |-> <<>>, stack |-> <<Slot(I32(5), I32(0)), a>>,
           pages |-> 1, rest |-> <<>>] : a \in NumSlots }
        \cup
        { [op |-> Op.growMemory, imm |-> <<0>>, stack |-> <<n>>, pages |-> pg,
           rest |-> Instr(Op.currentMemory, <<0>>)] :
            n \in GrowSlots, pg \in 0..MaxPages }

InitOps ==
    /\ \E i \in OpsInputs, sink \in BOOLEAN :
         /\ opNum \in (IF sink THEN {0, 1} ELSE {0})
         /\ vm = [ctx |-> [stack |-> i.stack, cap |-> 3, locals |-> <<>>,
                        code |-> Instr(i.op, i.imm) \o i.rest, pc |-> 0, curFunc |-> 0],
               globals |-> GlobalInit,
               memory |-> InitialMemory(i.pages),
               abort |-> FALSE,
               RecoverPanic |-> TRUE,
               module |-> [TableIndexSpace |-> <<>>],
               pg |-> sink,
               PgTx |-> IF sink THEN [status |-> "open", n |-> 0]
                                ELSE [status |-> "nil", n |-> 0]]
    /\ db = [rows |-> 0, commits |-> 0, batch |-> 0]
    /\ debugStackDepth = FALSE
    /\ run = [state |-> "exec", pos |-> "loop", api |-> "ExecCode", fnIndex |-> 0,
              args |-> <<>>, calls |-> 1, result |-> NoResult]
    /\ callStack = <<>>
    /\ last = -1

\* The number of records other VMs of the process log.
MaxOtherOps == 1

\* opLog called for another VM of the same process that has a sink: its row
\* and its commits go to that VM's transaction, its opNum++ to the package
\* variable every VM reads.
opLogOtherVM ==
    /\ opNum < MaxOtherOps
    /\ opNum' = opNum + 1
    /\ UNCHANGED <<vm, db, debugStackDepth, run, callStack, last>>

\* The dispatch loop executes the instruction at pc.
NextOps ==
    \/ \E op \in LoadOps \cup StoreOps \cup DivOps
                 \cup {Op.growMemory, Op.currentMemory, Op.i32Add, Op.i32Shl,
                       Op.i32ShrS, Op.i32ShrU, Op.i64Shl, Op.i64ShrS, Op.i64ShrU,
                       Op.f32Copysign, Op.f64Copysign, Op.i32WrapI64} : StepOp(op)
    \/ opLogOtherVM

SpecOps == InitOps /\ [][NextOps]_vars

(***************************************************************************)
(* Properties of the memory and division handlers (checked under SpecOps)  *)
(***************************************************************************)

\* The invocation has ended with the trap e: returned as ExecCode's error
\* with no result when RecoverPanic is set, unwinding out of it otherwise.
TrapEnded(e) ==
    IF vm.RecoverPanic
    THEN run.state = "idle" /\ run.result = Returned(NoValue, e)
    ELSE run.state = "unwound" /\ run.result.panic = e

\* The loop is about to execute op, and does.
Executes(op) == InLoop /\ NextOp = op /\ last' = op

\* The width in bytes of the access each memory operator names.
AccessWidth(op) ==
    CASE op \in {Op.i32Load8s, Op.i32Load8u, Op.i64Load8s, Op.i64Load8u,
                 Op.i32Store8, Op.i64Store8} -> 1
      [] op \in {Op.i32Load16s, Op.i32Load16u, Op.i64Load16s, Op.i64Load16u,
                 Op.i32Store16, Op.i64Store16} -> 2
      [] op \in {Op.i32Load, Op.f32Load, Op.i64Load32s, Op.i64Load32u,
                 Op.i32Store, Op.f32Store, Op.i64Store32} -> 4
      [] op \in {Op.i64Load, Op.f64Load, Op.i64Store, Op.f64Store} -> 8

\* The effective address of the access about to execute: the immediate after
\* the opcode plus the low 32 bits of the base operand (the top of the stack
\* for a load, the entry under the value for a store), modulo 2^32.
AccessAddr(op) ==
    LET stack == vm.ctx.stack
        base == IF op \in LoadOps THEN stack[Len(stack)] ELSE stack[Len(stack) - 1]
    IN  AddB(SubSeq(vm.ctx.code, vm.ctx.pc + 2, vm.ctx.pc + 5), Trunc(base, 4))

\* addr + w > len(memory)
AccessOutOfBounds(op) ==
    ~FitsInt(AccessAddr(op)) \/ ToInt(AccessAddr(op)) > vm.memory.len - AccessWidth(op)

\* C1: every load and store of width w at the unsigned 32-bit effective
\* address addr traps OutOfBoundsMemoryAccess and leaves memory unchanged when
\* addr + w > len(memory), and does not trap when addr + w <= len(memory).
C1_MemoryBoundsTrap ==
    [][\A op \in LoadOps \cup StoreOps :
          Executes(op) =>
              IF AccessOutOfBounds(op)
              THEN TrapEnded(ErrOutOfBoundsMemoryAccess)' /\ vm'.memory = vm.memory
              ELSE run' = run /\ run'.state = "exec"]_vars

\* C1 witness: a store past the end of a non-empty memory has trapped and the
\* memory still holds the data segment.
C1_Witness ==
    /\ last \in StoreOps
    /\ TrapEnded(ErrOutOfBoundsMemoryAccess)
    /\ vm.memory = InitialMemory(1)

\* The operand width of each division operator.
DivWidth(op) ==
    IF op \in {Op.i32DivS, Op.i32DivU, Op.i32RemS, Op.i32RemU} THEN 4 ELSE 8

\* The operands of the binary operator about to execute, at its width.
Operand2(op) == Trunc(vm.ctx.stack[Len(vm.ctx.stack)], DivWidth(op))
Operand1(op) == Trunc(vm.ctx.stack[Len(vm.ctx.stack) - 1], DivWidth(op))
OperandsPopped == vm'.ctx.stack = SubSeq(vm.ctx.stack, 1, Len(vm.ctx.stack) - 2)

\* C2: i32 and i64 div_s, div_u, rem_s, rem_u with a zero divisor end the
\* invocation with the divide-by-zero trap and push nothing.
C2_DivideByZeroTrap ==
    [][\A op \in DivOps :
          Executes(op) /\ Operand2(op) = ZeroBytes(DivWidth(op)) =>
              TrapEnded(DivideByZero)' /\ OperandsPopped]_vars

\* C2 witness: a 64-bit division has trapped on a zero divisor, both
\* operands gone from the stack.
C2_Witness ==
    /\ last \in {Op.i64DivS, Op.i64DivU, Op.i64RemS, Op.i64RemU}
    /\ TrapEnded(DivideByZero)
    /\ vm.ctx.stack = <<>>

\* C3: i32.div_s(INT32_MIN, -1) and i64.div_s(INT64_MIN, -1) end the
\* invocation with a trap instead of pushing a quotient.
C3_SignedDivisionOverflowTrap ==
    [][\A op \in {Op.i32DivS, Op.i64DivS} :
          /\ Executes(op)
          /\ Operand1(op) = (IF op = Op.i32DivS THEN Int32Min ELSE Int64Min)
          /\ Operand2(op) = [i \in 1..DivWidth(op) |-> 255]
          => run'.state # "exec" /\ OperandsPopped]_vars

\* The integer a 32-bit two's-complement value stands for.
SInt32(b) == IF IsNeg(b) THEN (0 - 1) - ToInt(NotB(b)) ELSE ToInt(b)

\* The quotient of a by b truncated toward zero, for b # 0 and not (a =
\* INT32_MIN and b = -1), in integer arithmetic: the magnitudes are divided
\* as non-positive numbers, which the most negative value has too.
TruncQuot(a, b) ==
    LET na == IF a > 0 THEN 0 - a ELSE a
        nb == IF b > 0 THEN 0 - b ELSE b
        m == na \div nb
    IN  IF b = 1 THEN a
        ELSE IF b = 0 - 1 THEN 0 - a
        ELSE IF (a < 0) # (b < 0) THEN 0 - m ELSE m

\* C20: for all 32-bit a, b with b # 0 and not (a = INT32_MIN and b = -1),
\* i32.div_s pushes the quotient truncated toward zero and i32.rem_s pushes
\* a - (a/b)*b, a being the operand pushed first and b the one popped first.
C20_SignedDivRem ==
    [][\A op \in {Op.i32DivS, Op.i32RemS} :
          /\ Executes(op)
          /\ Operand2(op) # ZeroBytes(4)
          /\ ~(Operand1(op) = Int32Min /\ Operand2(op) = U32Max)
          => LET a == SInt32(Operand1(op))
                 b == SInt32(Operand2(op))
                 q == TruncQuot(a, b)
                 pushed == SInt32(Trunc(vm'.ctx.stack[Len(vm'.ctx.stack)], 4))
             IN  /\ run' = run
                 /\ Len(vm'.ctx.stack) = Len(vm.ctx.stack) - 1
                 /\ pushed = (IF op = Op.i32DivS THEN q ELSE a - q * b)]_vars

\* C20 witness: i32.div_s has pushed -3 for -7 / 2 (rounding down would give
\* -4), in a slot that holds the int32 sign-extended.
C20_Witness ==
    /\ last = Op.i32DivS
    /\ run.state = "exec"
    /\ vm.ctx.stack = << <<253, 255, 255, 255, 255, 255, 255, 255>> >>

\* What this VM's embedder can observe of the instruction about to execute
\* when the package counter holds n: the VM after it (memory, globals, stack,
\* abort flag, transaction), the rows and commits in its database, the panic.
NextObservables(n) ==
    LET r == funcTable(NextOp, [Fetched EXCEPT !.opNum = n])
    IN  [vm |-> r.vm, db |-> r.db, panic |-> r.panic]

\* C18: two VM instances share no mutable state: an operation of another VM
\* changes nothing this VM's own operations then observe, the telemetry
\* numbering and commit points included.
C18_IndependentVMs ==
    [][InLoop /\ vm' = vm /\ opNum' # opNum =>
          NextObservables(opNum') = NextObservables(opNum)]_vars

\* The grow_memory about to execute: the size in pages and the delta it pops.
GrowPages == vm.memory.len \div wasmPageSize
GrowDelta == Trunc(vm.ctx.stack[Len(vm.ctx.stack)], 4)

\* C11: for every delta n >= 0 with current pages + n <= 65536, grow_memory(n)
\* pushes the old size in pages, a current_memory right after it pushes old
\* pages + n, the bytes that existed are unchanged and the new pages are zero.
C11_GrowMemory ==
    [][Executes(Op.growMemory) /\ ~IsNeg(GrowDelta)
       /\ GrowPages + ToInt(GrowDelta) <= 65536 =>
          /\ run' = run
          /\ vm'.ctx.stack = <<SignExt(LE(GrowPages, 4), 8)>>
          /\ LET after == funcTable(Op.currentMemory, Fetched')
             IN  /\ Ok(after)
                 /\ after.vm.ctx.stack[2] =
                        SignExt(LE(GrowPages + ToInt(GrowDelta), 4), 8)
          /\ vm'.memory.len \div wasmPageSize = GrowPages + ToInt(GrowDelta)
          /\ vm'.memory.len % wasmPageSize = 0
          /\ vm'.memory.data = vm.memory.data]_vars

\* C12: for every 32-bit value v and every address a with a + 4 <=
\* len(memory), i32.store at a of v followed by i32.load at a yields v and
\* i32.load8_u at a yields v mod 256, and the store changes no memory byte
\* outside [a, a+4).  The loads are the handlers applied to the state the
\* store leaves, with the store's immediate and base operand.
C12_StoreLoadRoundTrip ==
    [][Executes(Op.i32Store) /\ ~AccessOutOfBounds(Op.i32Store) =>
          LET stack == vm.ctx.stack
              v == Trunc(stack[Len(stack)], 4)
              a == ToInt(AccessAddr(Op.i32Store))
              imm == SubSeq(vm.ctx.code, vm.ctx.pc + 2, vm.ctx.pc + 5)
              AtLoad == [Machine' EXCEPT !.vm.ctx.stack = <<stack[Len(stack) - 1]>>,
                                         !.vm.ctx.code = <<Op.i32Load>> \o imm,
                                         !.vm.ctx.pc = 1]
              load == funcTable(Op.i32Load, AtLoad)
              load8u == funcTable(Op.i32Load8u, AtLoad)
              ByteAt(mem, i) == IF i \in DOMAIN mem.data THEN mem.data[i] ELSE 0
          IN  /\ run' = run
              /\ Ok(load) /\ load.vm.ctx.stack = <<ZeroExt(v, 8)>>
              /\ Ok(load8u) /\ load8u.vm.ctx.stack = <<ZeroExt(<<v[1]>>, 8)>>
              /\ vm'.memory.len = vm.memory.len
              /\ \A i \in (DOMAIN vm.memory.data \cup DOMAIN vm'.memory.data)
                              \ (a..(a + 3)) :
                     ByteAt(vm'.memory, i) = ByteAt(vm.memory, i)]_vars

\* C12 witness: i32.store has written 0xC4332211 over the last four bytes of
\* the page, and the bytes before them still hold the data segment.
C12_Witness ==
    /\ last = Op.i32Store
    /\ run.state = "exec"
    /\ MemRead(Machine, 65532, 4) = <<17, 34, 51, 196>>
    /\ MemRead(Machine, 65528, 4) = <<129, 0, 0, 240>>

(***************************************************************************)
(* Properties of call_indirect, ExecCode and the operand stack (checked    *)
(* under Spec)                                                             *)
(***************************************************************************)

\* The call_indirect about to execute: the index it pops, the type index in
\* its immediate, and the table when the module has one.
IndirectIndex == Trunc(vm.ctx.stack[Len(vm.ctx.stack)], 4)
IndirectType == Types[ToInt(SubSeq(vm.ctx.code, vm.ctx.pc + 2, vm.ctx.pc + 5)) + 1]
HasTable == Len(vm.module.TableIndexSpace) > 0
Table == vm.module.TableIndexSpace[1]
IndirectIndexValid ==
    HasTable /\ FitsInt(IndirectIndex) /\ ToInt(IndirectIndex) < Len(Table)
IndirectCallee == Func(Table[ToInt(IndirectIndex) + 1])

\* Control stays in the caller: its function, code and saved frames.
NoControlTransfer ==
    /\ vm'.ctx.curFunc = vm.ctx.curFunc
    /\ vm'.ctx.code = vm.ctx.code
    /\ Len(callStack') <= Len(callStack)

\* C4: call_indirect on a callee whose type differs from the expected type in
\* a count or in any single parameter or result type traps SignatureMismatch
\* and does not transfer control to the callee.
C4_SignatureMismatchTrap ==
    [][Executes(Op.callIndirect) /\ IndirectIndexValid
       /\ IndirectCallee.Sig # IndirectType
       => TrapEnded(ErrSignatureMismatch)' /\ NoControlTransfer]_vars

\* C4 witness: indirect(2), whose callee differs from the expected type only
\* in its parameter type, has trapped with control still in indirect.
C4_Witness ==
    /\ last = Op.callIndirect
    /\ TrapEnded(ErrSignatureMismatch)
    /\ vm.ctx.locals = <<I64(2)>>
    /\ vm.ctx.curFunc = 2

\* C5: call_indirect with an index that is not a valid index of the table,
\* the table being empty or absent included, traps UndefinedElementIndex
\* without transferring control.
C5_UndefinedElementTrap ==
    [][Executes(Op.callIndirect) /\ ~IndirectIndexValid
       => TrapEnded(ErrUndefinedElementIndex)' /\ NoControlTransfer]_vars

\* ExecCode is called.
Called == run.state = "idle" /\ run'.calls = run.calls + 1

\* C6: ExecCode on a function of the index space with an argument list of
\* the wrong length returns ErrInvalidArgumentCount and changes nothing of
\* the VM: stack, locals, pc, memory, globals.
C6_InvalidArgumentCount ==
    [][Called /\ run'.fnIndex \in 0..(NumFuncs - 1)
       /\ Len(run'.args) # Len(Func(run'.fnIndex).Sig.ParamTypes)
       => /\ run'.state = "idle"
          /\ run'.result = Returned(NoValue, ErrInvalidArgumentCount)
          /\ vm' = vm]_vars

\* C6 witness: a second call with the wrong argument count has returned the
\* error, the stack the first call left still in place.
C6_Witness ==
    /\ run.state = "idle"
    /\ run.calls = 2
    /\ run.result = Returned(NoValue, ErrInvalidArgumentCount)
    /\ vm.ctx.stack # <<>>

\* C7: ExecCode with an index outside the function index space returns
\* InvalidFunctionIndexError and executes nothing; it never faults.
C7_InvalidFunctionIndex ==
    [][Called /\ (run'.fnIndex < 0 \/ run'.fnIndex >= NumFuncs)
       => /\ run'.state = "idle"
          /\ run'.result = Returned(NoValue, InvalidFunctionIndexError(run'.fnIndex))
          /\ vm' = vm]_vars

\* The trap the instruction about to execute raises, "none" when it raises
\* none of these: unreachable, a zero divisor, a memory access out of
\* bounds, an undefined table element, an indirect callee of another type.
TrapAhead ==
    CASE NextOp = Op.unreachable -> ErrUnreachable
      [] NextOp \in DivOps /\ Operand2(NextOp) = ZeroBytes(DivWidth(NextOp)) -> DivideByZero
      [] NextOp \in LoadOps \cup StoreOps /\ AccessOutOfBounds(NextOp) ->
            ErrOutOfBoundsMemoryAccess
      [] NextOp = Op.callIndirect /\ HasTable /\ ~IndirectIndexValid ->
            ErrUndefinedElementIndex
      [] NextOp = Op.callIndirect /\ IndirectIndexValid /\ IndirectCallee.Sig # IndirectType ->
            ErrSignatureMismatch
      [] OTHER -> "none"

\* C8: a trap raised at any call depth ends the whole invocation; with
\* RecoverPanic ExecCode returns it as its error, with no result value, and
\* without RecoverPanic it unwinds out of ExecCode.
C8_TrapRecovered ==
    [][InLoop /\ TrapAhead # "none"
       => /\ callStack' = <<>>
          /\ IF vm.RecoverPanic
             THEN run'.state = "idle" /\ run'.result = Returned(NoValue, TrapAhead)
             ELSE /\ run'.state = "unwound"
                  /\ run'.result = [rtrn |-> NoValue, err |-> Nil, panic |-> TrapAhead]]_vars

\* C8 witness: callDiv(7, 0) has trapped in its callee div, one call deep,
\* and ExecCode has returned the trap.
C8_Witness ==
    /\ run.state = "idle"
    /\ run.fnIndex = 1
    /\ vm.ctx.curFunc = 0
    /\ run.result = Returned(NoValue, DivideByZero)

\* C9: when the dispatch loop is left by a return, a br_table return target
\* or the end of the code, the stack holds exactly the declared results: one
\* entry for a function that returns a value, none otherwise.
C9_StackAtExit ==
    run.state = "exec" /\ run.pos = "exit" /\ ~vm.abort
    => Len(vm.ctx.stack) = (IF Func(vm.ctx.curFunc).returns THEN 1 ELSE 0)

\* C10: the operand stack of the running activation is never deeper than the
\* function's declared maximum depth.
C10_StackDepth ==
    run.state = "exec" => Len(vm.ctx.stack) <= Func(vm.ctx.curFunc).maxDepth

\* C14: after Restart, whatever ExecCode calls, set_global writes, Terminate
\* and Close came before, every global holds its initializer again, the
\* locals are empty and the abort flag is clear, and an ExecCode that follows
\* enters the dispatch loop with an opcode to execute.
C14_Restart ==
    [][/\ run'.api = "Restart" =>
            /\ vm'.globals = GlobalInit
            /\ vm'.ctx.locals = <<>>
            /\ ~vm'.abort
       /\ run.api = "Restart" /\ Called /\ run'.fnIndex \in 0..(NumFuncs - 1)
          /\ Len(run'.args) = Len(Func(run'.fnIndex).Sig.ParamTypes)
          /\ ~Func(run'.fnIndex).host =>
            /\ run'.state = "exec"
            /\ run'.pos = "loop"
            /\ Looping(vm')]_vars

\* C14 witness: Restart has run after setg() wrote 9 to global 0 (set_global
\* is the last opcode that executed), and the global holds its initializer.
C14_Witness ==
    /\ run.api = "Restart"
    /\ run.fnIndex = 13
    /\ last = Op.setGlobal
    /\ vm.globals = GlobalInit
    /\ ~vm.abort

\* C13: once a host function has set the abort flag during an invocation, no
\* further opcode executes at any nesting level (the loop is left, the callee
\* returns to its caller, or the invocation ends), and the invocation ends
\* with ExecCode returning and no fault, whether or not the entry function
\* declares a result and whatever the height of the operand stack.
C13_AbortExitsCleanly ==
    [][vm.abort /\ run.state = "exec" /\ last # 0 - 1 =>
          /\ \/ run'.pos = "exit" /\ vm' = vm
             \/ Len(callStack') < Len(callStack)
             \/ run'.state # "exec"
          /\ run'.state # "exec" =>
                /\ run'.state = "idle"
                /\ run'.result.panic = NoPanic
                /\ run'.result.err = Nil]_vars

\* The telemetry a step leaves alone: the transaction and the database.
TelemetryUntouched == vm'.PgTx = vm.PgTx /\ db' = db /\ opNum' = opNum

\* C15: with no telemetry sink configured, telemetry is a no-op on every
\* path: no step touches the sink's transaction or database, and ExecCode
\* returning normally (the loop left, the result read) commits nothing and
\* does not fault.
C15_NoSinkNoOp ==
    [][~vm.pg =>
          /\ TelemetryUntouched
          /\ run.state = "exec" /\ run.pos = "exit" /\ callStack = <<>>
             /\ Ok(execCodeResult(Machine).s) =>
                /\ run'.state = "idle"
                /\ run'.result.panic = NoPanic]_vars

\* The records this VM has logged: committed rows and rows of the open
\* transaction.
Records == db.rows + (IF vm.PgTx.status = "open" THEN vm.PgTx.n ELSE 0)

\* C16: with the telemetry sink enabled, every opcode the dispatch loop
\* executes (and that does not trap) emits exactly one record.
C16_OneRecordPerOpcode ==
    [][vm.pg /\ InLoop /\ last' = NextOp /\ run'.state = "exec" =>
          Records' = Records + 1]_vars

\* C17: with telemetry enabled, an intermediate commit (one made by opLog)
\* holds exactly 10,000 records, and the remaining records are committed
\* whenever ExecCode returns, a trap returned as the error included.
C17_CommitBatches ==
    [][vm.pg =>
          /\ run'.state = "exec" /\ db'.commits # db.commits =>
                db'.batch = CommitEvery
          /\ run.state = "exec" /\ run'.state = "idle" =>
                /\ db'.commits = db.commits + 1
                /\ db'.rows = Records]_vars

(***************************************************************************)
(* Properties of Process.ReadAt and Process.WriteAt (checked under Spec)   *)
(***************************************************************************)

\* The byte vm.memory holds at index i of its length.
ByteAt(mem, i) == IF i \in DOMAIN mem.data THEN mem.data[i] ELSE 0

\* The number of bytes a transfer of L bytes at off may move:
\* min(L, max(0, len(memory) - off)).
TransferCount(L, off) ==
    LET room == IF vm.memory.len - off > 0 THEN vm.memory.len - off ELSE 0
    IN  IF L < room THEN L ELSE room

\* C19: for every offset off >= 0 and buffer of length L, ReadAt and WriteAt
\* transfer exactly n = min(L, max(0, len(memory) - off)) bytes between the
\* buffer and the memory bytes [off, off+n), return n, return a short-read or
\* short-write error exactly when n < L, touch no memory byte outside
\* [off, off+n), never change len(memory) and never fault, off > len(memory)
\* included.
C19_ShortTransfer ==
    [][run'.api \in {"ReadAt", "WriteAt"} =>
          LET off == ToInt(run'.args[1])
              p == run'.args[2]
              n == TransferCount(Len(p), off)
              touched == off..(off + n - 1)
          IN  /\ run'.state = "idle"
              /\ run'.result.panic = NoPanic
              /\ run'.result.rtrn[1] = I64(n)
              /\ run'.result.err # Nil <=> n < Len(p)
              /\ vm'.memory.len = vm.memory.len
              /\ \A i \in (DOMAIN vm.memory.data \cup DOMAIN vm'.memory.data) \ touched :
                    ByteAt(vm'.memory, i) = ByteAt(vm.memory, i)
              /\ IF run'.api = "WriteAt"
                 THEN \A i \in touched : ByteAt(vm'.memory, i) = p[i - off + 1]
                 ELSE /\ vm'.memory = vm.memory
                      /\ Len(run'.result.rtrn[2]) = Len(p)
                      /\ \A k \in 1..Len(p) :
                            run'.result.rtrn[2][k] =
                               IF k <= n THEN ByteAt(vm.memory, off + k - 1) ELSE p[k]]_vars

(***************************************************************************)
(* Properties of the execution context (checked under Spec)                *)
(***************************************************************************)

\* C21: every ExecCode call that passes its argument checks, on a compiled
\* function, starts from a fresh execution context however the invocation
\* before it ended: the stack empty, pc = 0, the code and the function id
\* those of fnIndex, and locals of length params + declared locals with the
\* arguments in the prefix and zero in every other slot.
C21_FreshContext ==
    [][/\ Called
       /\ run'.fnIndex \in 0..(NumFuncs - 1)
       /\ Len(run'.args) = Len(Func(run'.fnIndex).Sig.ParamTypes)
       /\ ~Func(run'.fnIndex).host
       => LET f == Func(run'.fnIndex)
              c == vm'.ctx
          IN  /\ run'.state = "exec"
              /\ c.stack = <<>>
              /\ c.pc = 0
              /\ c.code = f.code
              /\ c.curFunc = run'.fnIndex
              /\ Len(c.locals) = f.totalLocalVars
              /\ \A i \in 1..Len(c.locals) :
                    c.locals[i] = IF i <= Len(run'.args) THEN run'.args[i]
                                  ELSE <<0, 0, 0, 0, 0, 0, 0, 0>>]_vars

\* C21 witness: setg is entered a second time, after a first run that set
\* its local and the global and after Close has set the abort flag: its
\* declared local is zero again and the stack is empty.
C21_Witness ==
    /\ run.state = "exec"
    /\ run.calls = 2
    /\ run.fnIndex = 13
    /\ last = 0 - 1
    /\ vm.abort
    /\ vm.ctx.stack = <<>>
    /\ vm.ctx.pc = 0
    /\ vm.ctx.locals = << <<0, 0, 0, 0, 0, 0, 0, 0>> >>
    /\ vm.globals # GlobalInit

(***************************************************************************)
(* Properties of the value slots (checked under SpecOps)                   *)
(***************************************************************************)

\* C22: every operand-stack slot written by an i32-typed operation (the i32
\* loads, the i32 division and remainder, current_memory, grow_memory) holds
\* the 32-bit value in its low 32 bits with the upper 32 bits zero, a value
\* that is negative as a signed integer included.
C22_ValueSlot ==
    [][\A op \in {Op.i32Load, Op.i32Load8s, Op.i32Load8u, Op.i32Load16s,
                  Op.i32Load16u, Op.i32DivS, Op.i32DivU, Op.i32RemS, Op.i32RemU,
                  Op.currentMemory, Op.growMemory} :
          Executes(op) /\ run'.state = "exec"
          => SubSeq(vm'.ctx.stack[Len(vm'.ctx.stack)], 5, 8) = <<0, 0, 0, 0>>]_vars

(***************************************************************************)
(* Properties of the numeric handlers (checked under SpecOps)              *)
(***************************************************************************)

\* C23: for shl, shr_s and shr_u on N-bit integers, N = 32 or 64, the shift
\* amount is taken modulo N: for every value v and amount k the result is the
\* shift of v by k mod N, and a shift by N returns v unchanged.
C23_ShiftModulo ==
    [][\A op \in {Op.i32Shl, Op.i32ShrS, Op.i32ShrU, Op.i64Shl, Op.i64ShrS, Op.i64ShrU} :
          Executes(op) /\ run'.state = "exec"
          => LET width == IF op \in {Op.i32Shl, Op.i32ShrS, Op.i32ShrU} THEN 4 ELSE 8
                 kind == IF op \in {Op.i32Shl, Op.i64Shl} THEN "shl"
                         ELSE IF op \in {Op.i32ShrS, Op.i64ShrS} THEN "shr_s"
                         ELSE "shr_u"
                 v == Trunc(vm.ctx.stack[Len(vm.ctx.stack) - 1], width)
                 k == Trunc(vm.ctx.stack[Len(vm.ctx.stack)], width)
                 masked == <<k[1] % (8 * width)>> \o ZeroBytes(width - 1)
             IN  Trunc(vm'.ctx.stack[Len(vm'.ctx.stack)], width) = Shift(v, masked, kind)]_vars

(***************************************************************************)
(* Properties of the branches and discards (checked under Spec)            *)
(***************************************************************************)

\* The discard an instruction applies to the stack below: the stack it acts
\* on, the number of entries it names, and whether it preserves the top.
DiscardAhead ==
    LET stack == vm.ctx.stack
        below == SubSeq(stack, 1, Len(stack) - 1)
        jmpNz == fetchInt64(fetchBool(fetchInt64(Fetched).s).s)
        table == Func(vm.ctx.curFunc).branchTables[ToInt(fetchInt64(Fetched).v) + 1]
        label == Trunc(stack[Len(stack)], 4)
        target == IF ~IsNeg(label) /\ ToInt(label) < Len(table.Targets)
                  THEN table.Targets[ToInt(label) + 1]
                  ELSE table.DefaultTarget
    IN  CASE NextOp = Op.Discard ->
               [on |-> stack, n |-> ToInt(fetchInt64(Fetched).v), keep |-> FALSE]
          [] NextOp = Op.DiscardPreserveTop ->
               [on |-> stack, n |-> ToInt(fetchInt64(Fetched).v), keep |-> TRUE]
          [] NextOp = Op.JmpNz /\ Trunc(stack[Len(stack)], 4) # ZeroBytes(4) ->
               [on |-> below, n |-> ToInt(jmpNz.v),
                keep |-> fetchBool(fetchInt64(Fetched).s).v]
          [] NextOp = Op.BrTable /\ ~target.Return ->
               [on |-> below, n |-> target.Discard, keep |-> target.PreserveTop]
          [] OTHER -> [on |-> stack, n |-> 0 - 1, keep |-> FALSE]

\* C24: the preserve-top discard (DISCARD_PRESERVE_TOP place, a taken JMP_NZ
\* with preserveTop, a br_table target with preserveTop) saves the top,
\* removes exactly place entries below it and pushes the top back: the top is
\* the old top and the height has decreased by exactly place; DISCARD place
\* decreases the height by exactly place.
C24_DiscardHeight ==
    [][/\ InLoop
       /\ NextOp \in {Op.Discard, Op.DiscardPreserveTop, Op.JmpNz, Op.BrTable}
       /\ last' = NextOp
       /\ run'.state = "exec"
       /\ DiscardAhead.n >= 0
       => /\ Len(vm'.ctx.stack) = Len(DiscardAhead.on) - DiscardAhead.n
          /\ DiscardAhead.keep =>
                vm'.ctx.stack[Len(vm'.ctx.stack)] = DiscardAhead.on[Len(DiscardAhead.on)]]_vars

\* C25: br_table pops a 32-bit label and selects targets[label] when
\* 0 <= label < number of targets and the default target for every other
\* label, the labels that are negative as signed integers included; when the
\* target carries the return flag the loop is left with the stack and pc as
\* the branch found them, otherwise the target's discard is applied and pc
\* becomes the target's address.
C25_BrTable ==
    [][Executes(Op.BrTable) /\ run'.state = "exec"
       => LET stack == vm.ctx.stack
              below == SubSeq(stack, 1, Len(stack) - 1)
              label == SInt32(Trunc(stack[Len(stack)], 4))
              table == Func(vm.ctx.curFunc).branchTables[ToInt(fetchInt64(Fetched).v) + 1]
              target == IF 0 <= label /\ label < Len(table.Targets)
                        THEN table.Targets[label + 1]
                        ELSE table.DefaultTarget
              kept == SubSeq(below, 1, Len(below) - target.Discard)
          IN  IF target.Return
              THEN /\ run'.pos = "exit"
                   /\ vm'.ctx.stack = below
                   /\ vm'.ctx.pc = vm.ctx.pc + 9
              ELSE /\ run'.pos = "loop"
                   /\ vm'.ctx.pc = target.Addr
                   /\ vm'.ctx.stack = (IF target.PreserveTop
                                       THEN kept \o <<below[Len(below)]>>
                                       ELSE kept)]_vars

\* C25 witness: brt(-1) has executed its br_table: the label, negative as a
\* signed integer, selected the default target, a return, and the loop is
\* left with 10 and 20 still on the stack.
C25_Witness ==
    /\ run.state = "exec"
    /\ run.pos = "exit"
    /\ last = Op.BrTable
    /\ vm.ctx.curFunc = 7
    /\ vm.ctx.locals = << <<255, 255, 255, 255, 0, 0, 0, 0>> >>
    /\ vm.ctx.stack = <<I64(10), I64(20)>>

\* The numeric operators of the model, and the operands each one pops.
NumericArity ==
    [op \in DivOps \cup {Op.i32Add, Op.i32Shl, Op.i32ShrS, Op.i32ShrU, Op.i64Shl,
                         Op.i64ShrS, Op.i64ShrU, Op.f32Copysign, Op.f64Copysign}
        |-> 2] @@ (Op.i32WrapI64 :> 1)

\* C26: every numeric operator handler (arithmetic, bitwise, comparison,
\* conversion) changes only the operand stack: the program counter, locals,
\* globals, linear memory, abort flag and current-function id are after the
\* handler what they were before it, and the stack height changes by exactly
\* 1 - arity.
C26_NumericFrame ==
    [][\A op \in DOMAIN NumericArity :
          Executes(op) /\ run'.state = "exec"
          => /\ vm'.ctx.pc = Fetched.vm.ctx.pc
             /\ vm'.ctx.locals = vm.ctx.locals
             /\ vm'.ctx.code = vm.ctx.code
             /\ vm'.ctx.curFunc = vm.ctx.curFunc
             /\ vm'.globals = vm.globals
             /\ vm'.memory = vm.memory
             /\ vm'.abort = vm.abort
             /\ Len(vm'.ctx.stack) = Len(vm.ctx.stack) + 1 - NumericArity[op]
             /\ SubSeq(vm'.ctx.stack, 1, Len(vm'.ctx.stack) - 1)
                   = SubSeq(vm.ctx.stack, 1, Len(vm.ctx.stack) - NumericArity[op])]_vars

\* C26 witness: i32.wrap_i64 has replaced the 64-bit -7 on top of the stack
\* with its low 32 bits, leaving the slot below it.
C26_Witness ==
    /\ run.state = "exec"
    /\ last = Op.i32WrapI64
    /\ vm.ctx.pc = 1
    /\ vm.ctx.stack = <<Slot(I32(5), I32(0)), Slot(<<249, 255, 255, 255>>, I32(0))>>

\* C27: copysign is a bit operation on the sign bit with the standard operand
\* order: for x, the left operand, pushed first, and y, the right operand,
\* popped first, f32.copysign and f64.copysign push the bit pattern of x with
\* its sign bit replaced by the sign bit of y.
C27_Copysign ==
    [][\A op \in {Op.f32Copysign, Op.f64Copysign} :
          Executes(op) /\ run'.state = "exec"
          => LET width == IF op = Op.f32Copysign THEN 4 ELSE 8
                 x == Trunc(vm.ctx.stack[Len(vm.ctx.stack) - 1], width)
                 y == Trunc(vm.ctx.stack[Len(vm.ctx.stack)], width)
                 pushed == Trunc(vm'.ctx.stack[Len(vm'.ctx.stack)], width)
             IN  /\ \A i \in 1..(width - 1) : pushed[i] = x[i]
                 /\ pushed[width] % 128 = x[width] % 128
                 /\ pushed[width] \div 128 = y[width] \div 128]_vars

(***************************************************************************)
(* Properties of the memory size and the abort flag (checked under Spec)   *)
(***************************************************************************)

\* C28: across any sequence of operations on one VM (loads, stores,
\* grow_memory, ReadAt and WriteAt, ExecCode, Restart, Close) len(memory)
\* never decreases and is always a whole multiple of the page size, and only
\* grow_memory changes it.
C28_MemorySize ==
    [][/\ vm'.memory.len >= vm.memory.len
       /\ vm'.memory.len % wasmPageSize = 0
       /\ vm'.memory.len # vm.memory.len => Executes(Op.growMemory)]_vars

\* C28 witness: two calls of grow(1) have grown the memory of one page to
\* three, and the second returned the size before it, two pages.
C28_Witness ==
    /\ vm.memory.len = 3 * wasmPageSize
    /\ last = Op.growMemory
    /\ vm.ctx.stack = <<I64(2)>>
    /\ vm.memory.data = (0 :> 1) @@ (65535 :> 200)

\* C29: once Close or Process.Terminate has set the abort flag it stays set
\* until Restart: ExecCode never clears it, and every ExecCode issued between
\* the abort and the next Restart executes no opcode and changes neither the
\* memory nor the globals.
C29_AbortPersists ==
    [][/\ vm.abort /\ run'.api # "Restart" => vm'.abort
       /\ vm.abort /\ (Called \/ (run.state = "exec" /\ last = 0 - 1))
          => /\ last' = 0 - 1
             /\ vm'.memory = vm.memory
             /\ vm'.globals = vm.globals]_vars

\* C29 witness: after Close, ExecCode on setg has set up its context and
\* returned without executing an opcode: the global keeps its initial value
\* and the abort flag is still set.
C29_Witness ==
    /\ run.state # "exec"
    /\ run.api = "ExecCode"
    /\ run.fnIndex = 13
    /\ vm.ctx.curFunc = 13
    /\ vm.ctx.code # <<>>
    /\ vm.ctx.pc = 0
    /\ last = 0 - 1
    /\ vm.abort
    /\ vm.globals = GlobalInit

\* C30: with telemetry enabled the VM holds an open transaction whenever an
\* opcode is logged: after an ExecCode has returned normally a further
\* ExecCode on the same VM still records its opcodes, and its final commit
\* does not fault on a transaction that was already committed.
C30_OpenTransaction ==
    [][vm.pg =>
          /\ InLoop => vm.PgTx.status = "open"
          /\ run.state = "exec" /\ run.pos = "exit" /\ callStack = <<>>
             /\ Ok(execCodeResult(Machine).s)
             => /\ run'.result.panic = NoPanic
                /\ run'.result.err \in {Nil, InvalidReturnTypeError}]_vars

====
